---- MODULE Spec2Model ----
(***************************************************************************)
(* vfscache-proxy: the link backend (identity table, metadata resolver,    *)
(* metadata cache), URL canonicalisation and the HTTP content handler.     *)
(*                                                                         *)
(* Strings that the code inspects character by character (URLs) are        *)
(* sequences of one-character strings; everything else is a TLA+ value.    *)
(***************************************************************************)
EXTENDS Integers, Sequences, FiniteSets, TLC

\* the empty string, and the absent hash, key or name
None == <<>>

(***************************************************************************)
(* String helpers (package strings).                                       *)
(***************************************************************************)
RECURSIVE IndexFrom(_, _, _)
\* index of the first occurrence of character c in s at position >= i, 0 if none
IndexFrom(s, c, i) ==
    IF i > Len(s) THEN 0
    ELSE IF s[i] = c THEN i
    ELSE IndexFrom(s, c, i + 1)

Index(s, c) == IndexFrom(s, c, 1)

RECURSIVE LastIndexFrom(_, _, _)
LastIndexFrom(s, c, i) ==
    IF i < 1 THEN 0
    ELSE IF s[i] = c THEN i
    ELSE LastIndexFrom(s, c, i - 1)

LastIndex(s, c) == LastIndexFrom(s, c, Len(s))

Contains(s, c) == Index(s, c) # 0

Count(s, c) == Cardinality({i \in 1..Len(s) : s[i] = c})

HasPrefix(s, pre) == Len(s) >= Len(pre) /\ SubSeq(s, 1, Len(pre)) = pre

Before(s, i) == SubSeq(s, 1, i - 1)

After(s, i) == SubSeq(s, i + 1, Len(s))

\* strings.Cut(s, c): <<before, after, found>>
Cut(s, c) ==
    LET i == Index(s, c)
    IN  IF i = 0 THEN <<s, <<>>, FALSE>> ELSE <<Before(s, i), After(s, i), TRUE>>

Letters == {"h", "a", "b", "x", "y"}

Digits == {"1", "2"}

(***************************************************************************)
(* net/url as used by StripURL: Parse and URL.String.                      *)
(***************************************************************************)
RECURSIVE SchemeScan(_, _)
\* url.getScheme: <<ok, scheme, rest>>
SchemeScan(raw, i) ==
    IF i > Len(raw) THEN <<TRUE, <<>>, raw>>
    ELSE IF raw[i] \in Letters THEN SchemeScan(raw, i + 1)
    ELSE IF raw[i] \in Digits \cup {"+", "-", "."}
         THEN IF i = 1 THEN <<TRUE, <<>>, raw>> ELSE SchemeScan(raw, i + 1)
    ELSE IF raw[i] = ":"
         THEN IF i = 1 THEN <<FALSE, <<>>, <<>>>>
              ELSE <<TRUE, Before(raw, i), After(raw, i)>>
    ELSE <<TRUE, <<>>, raw>>

getScheme(raw) == SchemeScan(raw, 1)

\* url.validOptionalPort on the text from the last colon of the host
validOptionalPort(port) ==
    \/ port = <<>>
    \/ /\ port[1] = ":"
       /\ \A i \in 2..Len(port) : port[i] \in Digits

\* url.parseAuthority: <<ok, user, host>>; user is <<>> for no userinfo (nil) and
\* <<userinfo>> otherwise
parseAuthority(authority) ==
    LET i    == LastIndex(authority, "@")
        host == IF i = 0 THEN authority ELSE After(authority, i)
        c    == LastIndex(host, ":")
        okH  == c = 0 \/ validOptionalPort(SubSeq(host, c, Len(host)))
        info == Before(authority, i)
        user == IF i = 0 THEN <<>> ELSE <<info>>
        okU  == i = 0 \/ \A k \in 1..Len(info) : info[k] \notin {"/", "?", "#", "@"}
    IN  <<okH /\ okU, user, host>>

NoURL ==
    [ok |-> FALSE, Scheme |-> <<>>, Opaque |-> <<>>, User |-> <<>>, Host |-> <<>>,
     Path |-> <<>>, OmitHost |-> FALSE, ForceQuery |-> FALSE, RawQuery |-> <<>>,
     Fragment |-> <<>>]

\* url.parse, the authority: "//" authority [path]
parseHost(base, pa, path) ==
    IF pa[1] THEN [base EXCEPT !.User = pa[2], !.Host = pa[3], !.Path = path] ELSE NoURL

parseAfterSlashes(base, auth0, slash) ==
    IF slash = 0
    THEN parseHost(base, parseAuthority(auth0), <<>>)
    ELSE parseHost(base, parseAuthority(Before(auth0, slash)),
                   SubSeq(auth0, slash, Len(auth0)))

\* url.parse once scheme and query are split off
parseRest(base, rest) ==
    IF ~HasPrefix(rest, <<"/">>) /\ base.Scheme # <<>>
    THEN [base EXCEPT !.Opaque = rest]
    ELSE IF ~HasPrefix(rest, <<"/">>) /\ Contains(Cut(rest, "/")[1], ":")
    THEN NoURL
    ELSE IF (base.Scheme # <<>> \/ ~HasPrefix(rest, <<"/", "/", "/">>))
            /\ HasPrefix(rest, <<"/", "/">>)
    THEN parseAfterSlashes(base, After(rest, 2), Index(After(rest, 2), "/"))
    ELSE [base EXCEPT !.Path = rest,
                      !.OmitHost = base.Scheme # <<>> /\ HasPrefix(rest, <<"/">>)]

\* url.parse once the scheme is split off: the query
parseQuery(scheme, rest) ==
    IF Len(rest) > 0 /\ rest[Len(rest)] = "?" /\ Count(rest, "?") = 1
    THEN parseRest([NoURL EXCEPT !.ok = TRUE, !.Scheme = scheme, !.ForceQuery = TRUE],
                   Before(rest, Len(rest)))
    ELSE parseRest([NoURL EXCEPT !.ok = TRUE, !.Scheme = scheme,
                                 !.RawQuery = Cut(rest, "?")[2]],
                   Cut(rest, "?")[1])

parseScheme(u, sc) ==
    IF ~sc[1] THEN NoURL
    ELSE IF u = <<"*">> THEN [NoURL EXCEPT !.ok = TRUE, !.Path = u]
    ELSE parseQuery(sc[2], sc[3])

\* url.parse(rawURL, viaRequest = false) on the text before '#'
parse(u) == parseScheme(u, getScheme(u))

setFragment(p, frag) == IF p.ok THEN [p EXCEPT !.Fragment = frag] ELSE p

\* url.Parse
Parse(raw) == setFragment(parse(Cut(raw, "#")[1]), Cut(raw, "#")[2])

\* (*URL).String: scheme, "//", userinfo and host
stringAuthority(u) ==
    (IF u.Scheme # <<>> THEN u.Scheme \o <<":">> ELSE <<>>)
    \o (IF /\ u.Scheme # <<>> \/ u.Host # <<>> \/ u.User # <<>>
           /\ ~(u.OmitHost /\ u.Host = <<>> /\ u.User = <<>>)
        THEN (IF u.Host # <<>> \/ u.Path # <<>> \/ u.User # <<>>
              THEN <<"/", "/">> ELSE <<>>)
             \o (IF u.User # <<>> THEN u.User[1] \o <<"@">> ELSE <<>>)
             \o u.Host
        ELSE <<>>)
    \o (IF u.Path # <<>> /\ u.Path[1] # "/" /\ u.Host # <<>> THEN <<"/">> ELSE <<>>)

\* (*URL).String: the path after what has been written so far
stringPath(u, head) ==
    head
    \o (IF head = <<>> /\ Contains(Cut(u.Path, "/")[1], ":")
        THEN <<".", "/">> ELSE <<>>)
    \o u.Path

\* (*URL).String
String(u) ==
    (IF u.Opaque # <<>>
     THEN (IF u.Scheme # <<>> THEN u.Scheme \o <<":">> ELSE <<>>) \o u.Opaque
     ELSE stringPath(u, stringAuthority(u)))
    \o (IF u.ForceQuery \/ u.RawQuery # <<>> THEN <<"?">> \o u.RawQuery ELSE <<>>)
    \o (IF u.Fragment # <<>> THEN <<"#">> \o u.Fragment ELSE <<>>)

(***************************************************************************)
(* backend/link/strip.go                                                   *)
(***************************************************************************)
stripQueryOf(parsedURL, sq) ==
    IF sq THEN [parsedURL EXCEPT !.RawQuery = <<>>] ELSE parsedURL

stripDomainOf(parsedURL, sd) ==
    IF sd
    THEN [parsedURL EXCEPT !.Scheme = <<>>, !.Host = <<>>, !.User = <<>>,
                           !.Fragment = <<>>]
    ELSE parsedURL

stripParsed(u, parsedURL, sq, sd) ==
    IF ~parsedURL.ok THEN u
    ELSE String(stripDomainOf(stripQueryOf(parsedURL, sq), sd))

\* StripURL without the return for no flag set
StripURLParsed(u, sq, sd) == stripParsed(u, Parse(u), sq, sd)

StripURL(u, sq, sd) ==
    IF ~sq /\ ~sd THEN u ELSE stripParsed(u, Parse(u), sq, sd)

\* crypto/md5 over the canonical URL: collision-free on the model's inputs.
\* The handler keeps the digest as hex text, the backend as raw bytes.
md5Hex(s) == <<"hex", s>>

md5Sum(s) == <<"raw", s>>


(***************************************************************************)
(* Bounds of the model.                                                    *)
(***************************************************************************)
\* low-level retries of the pacer (rclone's default is 10)
Retries == 2

\* seconds the clock advances in one Tick, and how often it may
TickStep == 1800

MaxTicks == 2

(***************************************************************************)
(* Inputs: inbound requests and upstream responses.                        *)
(***************************************************************************)
UrlA1 == <<"h", ":", "/", "/", "a", "/", "x", "?", "1">>

UrlA2 == <<"h", ":", "/", "/", "a", "/", "x", "?", "2">>

TargetURLs == {UrlA1, UrlA2}

\* http.Header: header name -> value; a header that is not sent is not in the domain
HdrTok1 == [h \in {"Authorization", "User-Agent"} |->
                IF h = "Authorization" THEN "tok1" ELSE "ua1"]

HdrTok1b == [h \in {"Authorization", "User-Agent"} |->
                IF h = "Authorization" THEN "tok1" ELSE "ua2"]

HdrSid == [h \in {"Cookie", "Accept"} |-> IF h = "Cookie" THEN "sid" ELSE "any"]

\* an Authorization header that is sent empty
HdrEmpty == [h \in {"Authorization", "Cookie", "Accept"} |->
                IF h = "Authorization" THEN "" ELSE IF h = "Cookie" THEN "sid" ELSE "any"]

InboundHeaders == {HdrTok1, HdrTok1b}

Methods == {"GET", "HEAD"}

\* Options: <<StripQuery, StripDomain, ShardLevel>>; ShardLevel 0 is no sharding,
\* 1 the default. Both strip the query, so that the two target URLs are one file.
Configs == {<<TRUE, FALSE, 0>>, <<TRUE, TRUE, 1>>}

Requests == [url : TargetURLs \cup {<<>>}, header : InboundHeaders, method : Methods]

\* Header.Get
Get(header, name) == IF name \in DOMAIN header THEN header[name] ELSE ""

NoHeader == [h \in {} |-> ""]

\* one outcome of client.Do: an error, or a response with the fields the code reads
Response(err, status, length, contentRange, lastModified) ==
    [err |-> err, StatusCode |-> status, ContentLength |-> length,
     ContentRange |-> contentRange, LastModified |-> lastModified]

NoResp == Response("", 0, 0, <<>>, <<>>)

\* Header values are sequences of words; <<>> is a header that is absent.
\* A well-formed Last-Modified date (seconds since the epoch) and a malformed one
LastModDate == <<"http-date", "100">>

LastModBad == <<"yesterday">>

\* "bytes 0-0/7" and "bytes 0-0/*"
RangeTotal7 == <<"bytes", "0", "0", "7">>

RangeTotalStar == <<"bytes", "0", "0", "*">>

\* the decimal numbers that occur in headers
Decimals == {"0", "7", "100", "-5"}

Atoi(w) == CASE w = "0" -> 0 [] w = "7" -> 7 [] w = "100" -> 100 [] w = "-5" -> -5

\* the outcomes of client.Do in Spec: both kinds of error, a permanent and a
\* transient status, and the answers a probe hopes for
Responses ==
    {Response("ECONNRESET", 0, 0, <<>>, <<>>), Response("x509", 0, 0, <<>>, <<>>),
     Response("", 404, 0, <<>>, <<>>), Response("", 503, 0, <<>>, <<>>),
     Response("", 200, 5, <<>>, <<>>), Response("", 200, -1, <<>>, <<>>),
     Response("", 206, 1, RangeTotal7, LastModDate)}

\* the outcomes of client.Do in ProbeSpec: every status the code tells apart and
\* its neighbours, and every shape of the headers it reads ("bytes 0-0/-5" among
\* them: %d takes a sign)
ProbeStatuses == {204, 301, 403, 404, 416, 429, 500, 501, 502, 503, 504, 509}

ProbeResponses ==
    {Response("ECONNRESET", 0, 0, <<>>, <<>>), Response("x509", 0, 0, <<>>, <<>>)}
    \cup {Response("", s, 0, <<>>, <<>>) : s \in ProbeStatuses}
    \cup {Response("", 200, n, <<>>, lm) :
              n \in {-1, 0, 5}, lm \in {<<>>, LastModDate, LastModBad}}
    \cup {Response("", 206, n, cr, lm) :
              n \in {-1, 1},
              cr \in {<<>>, RangeTotal7, RangeTotalStar, <<"bytes", "0", "0", "-5">>},
              lm \in {<<>>, LastModDate}}

\* a request for a range of the file
HdrRange == [h \in {"Range"} |-> "bytes=0-0"]

\* the requests of FileSpec
FileRequests == [url : {UrlA1}, header : {HdrTok1, HdrRange}, method : Methods]

\* the requests of ProbeSpec: one target URL, either method, every shape of header
ProbeRequests ==
    [url : {UrlA1}, header : {HdrTok1, HdrTok1b, HdrSid, HdrEmpty}, method : Methods]

(***************************************************************************)
(* backend/link/link.go: retry classification.                             *)
(***************************************************************************)
retryErrorCodes == {429, 500, 502, 503, 504, 509}

\* fserrors.ShouldRetry: connection resets are retried, certificate errors are not
fserrorsShouldRetry(err) == err \in {"ECONNRESET"}

\* shouldRetry with every error taken as retryable
shouldRetryAnyError(r) == r.err # "" \/ r.StatusCode \in retryErrorCodes

\* shouldRetry(resp, err): the retry flag (the error is passed through)
shouldRetry(r) ==
    IF r.err # "" THEN fserrorsShouldRetry(r.err)
    ELSE r.StatusCode \in retryErrorCodes

\* pacerAgain with twice the tries
pacerAgainTwice(tries, r) == shouldRetry(r) /\ tries < 2 * Retries

\* pacerAgain with the limit off by one
pacerAgainOnceMore(tries, r) == shouldRetry(r) /\ tries <= Retries

\* (*Pacer).call: the loop runs fn again while it asks for a retry and tries are left
pacerAgain(tries, r) == shouldRetry(r) /\ tries < Retries

(***************************************************************************)
(* State.                                                                  *)
(***************************************************************************)
VARIABLES
    stripQuery,   \* Handler.stripQuery / Fs.stripQuery
    stripDomain,  \* Handler.stripDomain / Fs.stripDomain
    shardLevel,   \* Handler.shardLevel
    urlMap,       \* link.urlMap: remote -> entry
    hashCache,    \* Handler.hashCache: target URL -> file hash
    cache,        \* Fs.cache: cache key -> [val, expireAt] and the history at, via
    now,          \* wall clock, seconds
    pc,           \* where each request handler is
    req,          \* the inbound request and target URL
    fileHash,     \* Serve's fileHash
    todo,         \* List: the remotes urlMap.Range has still to visit
    entries,      \* List: the remotes of the Objects appended so far
    node,         \* List: of these Objects, the one the path of Stat names
    cur,          \* NewObject: remote, entry e and cacheKey of the running call
    tries,        \* pacer: calls of fn made so far in the running Call
    resp,         \* NewObject / Open: resp and err of the last client.Do
    sent,         \* NewObject / Open: the last upstream request built
    probes,       \* NewObject: the methods of the attempts of the running call, in
                  \* order, and whether every answer so far was a 503
    bodies,       \* NewObject: of the responses of the latest call of the running
                  \* List, whether resp holds a body that is open, and whether a
                  \* response was dropped with its body open
    out,          \* ServeFile: status and headers written, the Object served
    last,         \* the last call of an operation of the backend from outside a
                  \* request, or of Shutdown: the operation, the error it
                  \* returned, and the name it was called with or on
    rawURL,       \* StripURL on its own: the string u it is called with first
    stripped,     \* StripURL on its own: what it returned, and what it returned
                  \* when called again with that
    meta,         \* the cache record on its own: a size and a modification time,
                  \* the 16 bytes made of them, and what is read back from the bytes
    main,         \* the standalone front end (main): of the last request the 'url'
                  \* parameter, the path, the target URL obtained (Go strings are
                  \* bytes), the status it answered itself and the calls of Serve
    front         \* the Caddy module: its settings, and of the
                  \* last request what the handler answered, the calls of the next
                  \* handler, and the status that went to the client

cfgVars == <<stripQuery, stripDomain, shardLevel>>

sharedVars == <<urlMap, hashCache, cache, now>>

procVars ==
    <<pc, req, fileHash, todo, entries, node, cur, tries, resp, sent, probes, bodies, out>>

sideVars == <<rawURL, stripped, meta, main, front>>

vars == <<cfgVars, last, sideVars, sharedVars, procVars>>

Procs == DOMAIN pc

NoReq == [url |-> <<>>, header |-> NoHeader, method |-> ""]

NoCur == [remote |-> None, url |-> <<>>, header |-> NoHeader, cacheKey |-> None]

NoSent == [method |-> "", url |-> <<>>, header |-> NoHeader]

NoObject == [remote |-> None, url |-> <<>>, header |-> NoHeader, size |-> 0, modTime |-> 0]

\* stat: whether Stat has returned, and with what; copied: the file bytes that
\* went to the client; stats, opens: the calls of Stat and of file.Open; handle: the
\* handle file.Open returned, "open" or "closed"; closes: the calls of its Close
NoOut ==
    [status |-> 0, header |-> NoHeader, opened |-> FALSE, copied |-> "none",
     stats |-> 0, opens |-> 0, handle |-> "none", closes |-> 0,
     stat |-> [called |-> FALSE, err |-> "", isFile |-> FALSE, hasEntry |-> FALSE]]

NoProbes == [methods |-> <<>>, all503 |-> TRUE]

\* var resp *http.Response: no response yet, none dropped
NoBodies == [open |-> FALSE, leaked |-> FALSE]


NoCall == [op |-> "", err |-> "", name |-> <<>>]

\* no request to the standalone front end
NoMain ==
    [called |-> FALSE, query |-> <<>>, path |-> <<>>, target |-> <<>>, status |-> 0,
     serves |-> 0]

\* no front end: the handler is called as it is
NoFront ==
    [passthrough |-> FALSE, next |-> FALSE, status |-> 0, wrote |-> FALSE,
     nextCalls |-> 0, client |-> 0]

\* the state after NewHandler and link.NewFs
InitState(procs, configs) ==
    /\ \E c \in configs :
          /\ stripQuery = c[1]
          /\ stripDomain = c[2]
          /\ shardLevel = c[3]
    /\ urlMap = [r \in {} |-> None]
    /\ hashCache = [u \in {} |-> None]
    /\ cache = [k \in {} |-> None]
    /\ now = 0
    /\ pc = [p \in procs |-> "idle"]
    /\ req = [p \in procs |-> NoReq]
    /\ fileHash = [p \in procs |-> None]
    /\ todo = [p \in procs |-> {}]
    /\ entries = [p \in procs |-> {}]
    /\ node = [p \in procs |-> NoObject]
    /\ cur = [p \in procs |-> NoCur]
    /\ tries = [p \in procs |-> 0]
    /\ resp = [p \in procs |-> NoResp]
    /\ sent = [p \in procs |-> NoSent]
    /\ probes = [p \in procs |-> NoProbes]
    /\ bodies = [p \in procs |-> NoBodies]
    /\ out = [p \in procs |-> NoOut]
    /\ last = NoCall

\* the same with no call of StripURL on its own
InitWith(procs, configs) ==
    /\ rawURL = None
    /\ stripped = <<>>
    /\ meta = None
    /\ main = NoMain
    /\ front = NoFront
    /\ InitState(procs, configs)

Init == InitWith({1}, Configs)


(***************************************************************************)
(* backend/link/link.go: identity table.                                   *)
(***************************************************************************)
\* Register that stores nothing
RegisterNothing(m, remote, url, header) == m

\* Register storing the URL alone when the remote has an entry, whose headers stay
RegisterKeepHeader(m, remote, url, header) ==
    [x \in DOMAIN m \cup {remote} |->
        IF x = remote
        THEN [url |-> url, header |-> IF remote \in DOMAIN m THEN m[remote].header ELSE header]
        ELSE m[x]]

\* Register(remote, url, header): urlMap.Store
Register(m, remote, url, header) ==
    [r \in DOMAIN m \cup {remote} |->
        IF r = remote THEN [url |-> url, header |-> header] ELSE m[r]]

\* Load(remote): <<url, found>>
Load(m, remote) ==
    IF remote \in DOMAIN m THEN <<m[remote].url, TRUE>> ELSE <<<<>>, FALSE>>

(***************************************************************************)
(* Metadata cache (freecache) as NewObject uses it.                        *)
(***************************************************************************)
TTL == 3600

\* EncodeMeta with the two halves of the buffer exchanged
EncodeMetaSwapped(size, modTime) == <<modTime, size>>

\* the 16-byte value: size and modTime.UnixNano(), and back
EncodeMeta(size, modTime) == <<size, modTime>>

DecodeSize(val) == val[1]

DecodeModTime(val) == val[2]

\* CacheLive without the expiry: any entry stored is returned
CacheLiveNoExpiry(c, k, t) == k \in DOMAIN c

\* cache.Get: an entry whose expiry time has come is not returned. (freecache
\* drops such an entry when it meets it; Evict below covers that.)
CacheLive(c, k, t) == k \in DOMAIN c /\ c[k].expireAt > t

\* cache.Set(cacheKey, buf, 3600): one entry per key, the old one is replaced.
\* at, via and by are history: when the entry was set, and the URL and the
\* credentials of the identity entry that was probed.
CacheSet(c, k, val, t, u, h) ==
    [x \in DOMAIN c \cup {k} |->
        IF x = k THEN [val |-> val, expireAt |-> t + TTL, at |-> t, via |-> u, by |-> h]
        ELSE c[x]]

CacheDel(c, k) == [x \in DOMAIN c \ {k} |-> c[x]]

(***************************************************************************)
(* Handler.getFileHash                                                     *)
(***************************************************************************)
\* computedHash without the stripping: the hash of the target URL as it came
computedHashRaw(targetURL, sq, sd) == md5Hex(targetURL)

\* the hash computed on a miss of hashCache
computedHash(targetURL, sq, sd) == md5Hex(StripURL(targetURL, sq, sd))

\* cacheKeyOf without the canonical form: the key of the URL as registered
cacheKeyOfRaw(u, sq, sd) == md5Sum(u)

\* the cache key NewObject derives from the registered URL
cacheKeyOf(u, sq, sd) == md5Sum(StripURL(u, sq, sd))

\* link.ShardedPath(fileHash, shardLevel): the path as a sequence of components,
\* shardLevel directory components and then the hash
ShardedPath(hash, level) ==
    [i \in 1..(level + 1) |-> IF i <= level THEN <<"shard", hash>> ELSE hash]

(***************************************************************************)
(* Handler.Serve                                                           *)
(***************************************************************************)
\* emptyTarget without the test: no target URL is taken as empty
emptyTargetNever(targetURL) == FALSE

\* if targetURL == ""
emptyTarget(targetURL) == targetURL = <<>>

\* Serve up to the read-locked lookup of getFileHash
Serve(p, r) ==
    /\ pc[p] = "idle"
    /\ last.op # "Shutdown"
    /\ req' = [req EXCEPT ![p] = r]
    /\ IF emptyTarget(r.url)
       THEN /\ out' = [out EXCEPT ![p].status = 400]
            /\ pc' = [pc EXCEPT ![p] = "done"]
            /\ UNCHANGED fileHash
       ELSE IF r.url \in DOMAIN hashCache
       THEN /\ fileHash' = [fileHash EXCEPT ![p] = hashCache[r.url]]
            /\ pc' = [pc EXCEPT ![p] = "register"]
            /\ UNCHANGED out
       ELSE /\ pc' = [pc EXCEPT ![p] = "hashStore"]
            /\ UNCHANGED <<fileHash, out>>
    /\ UNCHANGED <<cfgVars, last, sideVars, sharedVars, todo, entries, node, cur, tries, resp, sent,
                   probes, bodies>>

\* getFileHash after the miss: compute, then the re-check and store under the lock
GetFileHashStore(p) ==
    /\ pc[p] = "hashStore"
    /\ LET u == req[p].url
       IN  IF u \in DOMAIN hashCache
           THEN /\ fileHash' = [fileHash EXCEPT ![p] = hashCache[u]]
                /\ UNCHANGED hashCache
           ELSE /\ hashCache' = [x \in DOMAIN hashCache \cup {u} |->
                                    IF x = u
                                    THEN computedHash(u, stripQuery, stripDomain)
                                    ELSE hashCache[x]]
                /\ fileHash' = [fileHash EXCEPT
                                  ![p] = computedHash(u, stripQuery, stripDomain)]
    /\ pc' = [pc EXCEPT ![p] = "register"]
    /\ UNCHANGED <<cfgVars, last, sideVars, urlMap, cache, now, req, todo, entries, node, cur, tries,
                   resp, sent, probes, bodies, out>>

\* link.Register(fileHash, targetURL, r.Header.Clone())
ServeRegister(p) ==
    /\ pc[p] = "register"
    /\ urlMap' = Register(urlMap, fileHash[p], req[p].url, req[p].header)
    /\ pc' = [pc EXCEPT ![p] = "stat"]
    /\ UNCHANGED <<cfgVars, last, sideVars, hashCache, cache, now, req, fileHash, todo, entries, node,
                   cur, tries, resp, sent, probes, bodies, out>>

(***************************************************************************)
(* ServeFile: VFS.Stat reads the root directory through Fs.List("")        *)
(***************************************************************************)
Stat(p) ==
    /\ pc[p] = "stat"
    /\ todo' = [todo EXCEPT ![p] = DOMAIN urlMap]
    /\ entries' = [entries EXCEPT ![p] = {}]
    /\ node' = [node EXCEPT ![p] = NoObject]
    /\ pc' = [pc EXCEPT ![p] = "list"]
    /\ UNCHANGED <<cfgVars, last, sideVars, sharedVars, req, fileHash, cur, tries, resp, sent, probes, bodies,
                   out>>

Object(remote, url, header, size, modTime) ==
    [remote |-> remote, url |-> url, header |-> header, size |-> size,
     modTime |-> modTime]

\* the node VFS.Stat finds for the path among the entries: the entry named by a path
\* of one component
StatNode(path, o, found) ==
    IF Len(path) = 1 /\ path[1] = o.remote THEN o ELSE found

\* entries = append(entries, obj); NewObject has returned and List goes on
ListAppend(p, o) ==
    /\ entries' = [entries EXCEPT ![p] = @ \cup {o.remote}]
    /\ node' = [node EXCEPT ![p] =
                   StatNode(ShardedPath(fileHash[p], shardLevel), o, @)]
    /\ todo' = [todo EXCEPT ![p] = @ \ {o.remote}]

\* ListSkip that gives up the listing at the error
ListSkipAll(p, remote) ==
    /\ todo' = [todo EXCEPT ![p] = {}]
    /\ UNCHANGED <<entries, node>>

\* NewObject has returned an error: List drops the remote and goes on
ListSkip(p, remote) ==
    /\ todo' = [todo EXCEPT ![p] = @ \ {remote}]
    /\ UNCHANGED <<entries, node>>

\* the locals of a NewObject call that has returned; the deferred
\* resp.Body.Close() is there once the code after the probes has been reached,
\* and closes the body of the final response
NewObjectReturn(p) ==
    /\ pc' = [pc EXCEPT ![p] = "list"]
    /\ cur' = [cur EXCEPT ![p] = NoCur]
    /\ tries' = [tries EXCEPT ![p] = 0]
    /\ resp' = [resp EXCEPT ![p] = NoResp]
    /\ sent' = [sent EXCEPT ![p] = NoSent]
    /\ probes' = [probes EXCEPT ![p] = NoProbes]
    /\ bodies' = [bodies EXCEPT ![p] =
                     [open   |-> FALSE,
                      leaked |-> @.leaked \/ (@.open /\ pc[p] # "finish")]]

\* List: the Range callback calls NewObject(remote); NewObject up to the cache lookup
NewObjectLookup(p, remote) ==
    /\ pc[p] = "list"
    /\ remote \in todo[p]
    /\ LET e        == urlMap[remote]
           cacheKey == cacheKeyOf(e.url, stripQuery, stripDomain)
       IN  IF CacheLive(cache, cacheKey, now)
           THEN /\ ListAppend(p, Object(remote, e.url, e.header,
                                        DecodeSize(cache[cacheKey].val),
                                        DecodeModTime(cache[cacheKey].val)))
                /\ UNCHANGED <<pc, cur>>
           ELSE /\ cur' = [cur EXCEPT ![p] = [remote |-> remote, url |-> e.url,
                                              header |-> e.header, cacheKey |-> cacheKey]]
                /\ pc' = [pc EXCEPT ![p] = "head"]
                /\ UNCHANGED <<entries, node, todo>>
    /\ bodies' = [bodies EXCEPT ![p] = NoBodies]
    /\ UNCHANGED <<cfgVars, last, sideVars, sharedVars, req, fileHash, tries, resp, sent, probes, out>>

(***************************************************************************)
(* Fs.NewObject: the probes.                                               *)
(***************************************************************************)
\* forwarded without the allow-list: every header of the entry
forwardedAll(header) == header

\* the headers newReq and Open copy from the identity entry
forwarded(header) ==
    [h \in {n \in {"Authorization", "Cookie"} : Get(header, n) # ""} |-> header[h]]

WithHeader(header, name, value) ==
    [h \in DOMAIN header \cup {name} |-> IF h = name THEN value ELSE header[h]]

\* newReq(method, urlStr)
newReq(method, urlStr, header) ==
    [method |-> method, url |-> urlStr, header |-> forwarded(header)]

\* the GET probe: newReq("GET", u) and req.Header.Set("Range", "bytes=0-0")
newRangeReq(urlStr, header) ==
    [newReq("GET", urlStr, header) EXCEPT !.header = WithHeader(@, "Range", "bytes=0-0")]

\* needGet without the test of the content length
needGetStatusOnly(r) == r.err # "" \/ r.StatusCode # 200

\* the fallback condition after the HEAD probe
needGet(r) == r.err # "" \/ r.StatusCode # 200 \/ r.ContentLength < 0

\* resp, err = client.Do(req): the response resp held is dropped as it is, and
\* the new one has a body to close unless Do returned an error
Bodies(b, r) == [open |-> r.err = "", leaked |-> b.leaked \/ b.open]

Probed(pr, method, r) ==
    [methods |-> Append(pr.methods, method),
     all503  |-> pr.all503 /\ r.err = "" /\ r.StatusCode = 503]

\* client.Do(req) inside pacer.Call: the request goes out, resp and err are assigned
Do(p, request, r) ==
    /\ sent' = [sent EXCEPT ![p] = request]
    /\ resp' = [resp EXCEPT ![p] = r]
    /\ probes' = [probes EXCEPT ![p] = Probed(@, request.method, r)]
    /\ bodies' = [bodies EXCEPT ![p] = Bodies(@, r)]

\* url.Parse inside http.NewRequestWithContext, for the target URLs
ParsedOf == [u \in TargetURLs |-> Parse(u)]

\* one client.Do of the HEAD probe inside pacer.Call, and what follows it
HeadDo(p, r) ==
    /\ pc[p] = "head"
    /\ IF ~ParsedOf[cur[p].url].ok
       THEN /\ NewObjectReturn(p)
            /\ ListSkip(p, cur[p].remote)
       ELSE /\ Do(p, newReq("HEAD", cur[p].url, cur[p].header), r)
            /\ IF pacerAgain(tries[p] + 1, r)
               THEN /\ tries' = [tries EXCEPT ![p] = @ + 1]
                    /\ UNCHANGED pc
               ELSE /\ tries' = [tries EXCEPT ![p] = 0]
                    /\ pc' = [pc EXCEPT ![p] = IF needGet(r) THEN "get" ELSE "finish"]
            /\ UNCHANGED <<todo, entries, node, cur>>
    /\ UNCHANGED <<cfgVars, last, sideVars, sharedVars, req, fileHash, out>>

\* one client.Do of the GET range probe inside pacer.Call, and what follows it
GetDo(p, r) ==
    /\ pc[p] = "get"
    /\ IF pacerAgain(tries[p] + 1, r)
       THEN /\ Do(p, newRangeReq(cur[p].url, cur[p].header), r)
            /\ tries' = [tries EXCEPT ![p] = @ + 1]
            /\ UNCHANGED <<pc, todo, entries, node, cur>>
       ELSE IF r.err # ""
       THEN /\ NewObjectReturn(p)
            /\ ListSkip(p, cur[p].remote)
       ELSE /\ Do(p, newRangeReq(cur[p].url, cur[p].header), r)
            /\ tries' = [tries EXCEPT ![p] = 0]
            /\ pc' = [pc EXCEPT ![p] = "finish"]
            /\ UNCHANGED <<todo, entries, node, cur>>
    /\ UNCHANGED <<cfgVars, last, sideVars, sharedVars, req, fileHash, out>>

(***************************************************************************)
(* Fs.NewObject: from the final response to the Object.                    *)
(***************************************************************************)
\* fmt.Sscanf(contentRange, "bytes %d-%d/%d", ...): <<ok, total>>
Sscanf(contentRange) ==
    IF /\ Len(contentRange) = 4
       /\ contentRange[1] = "bytes"
       /\ \A i \in 2..4 : contentRange[i] \in Decimals
    THEN <<TRUE, Atoi(contentRange[4])>>
    ELSE <<FALSE, 0>>

\* http.ParseTime: <<ok, time>>
ParseTime(lastMod) ==
    IF Len(lastMod) = 2 /\ lastMod[1] = "http-date" /\ lastMod[2] \in Decimals
    THEN <<TRUE, Atoi(lastMod[2])>>
    ELSE <<FALSE, 0>>

\* statusOK without 206
statusOK200(r) == r.StatusCode = 200

statusOK(r) == r.StatusCode = 200 \/ r.StatusCode = 206

\* resolvedSize without Content-Range: the content length of the response
resolvedSizeLength(r) == r.ContentLength

\* size := resp.ContentLength, or the total of the Content-Range of a 206
resolvedSize(r) ==
    IF r.StatusCode = 206 /\ r.ContentRange # <<>> /\ Sscanf(r.ContentRange)[1]
    THEN Sscanf(r.ContentRange)[2]
    ELSE r.ContentLength

\* resolvedModTime without the wall clock: whatever ParseTime returns
resolvedModTimeParsed(r, t) == ParseTime(r.LastModified)[2]

\* modTime := time.Now(), or the Last-Modified date if it parses
resolvedModTime(r, t) ==
    IF r.LastModified # <<>> /\ ParseTime(r.LastModified)[1]
    THEN ParseTime(r.LastModified)[2]
    ELSE t

\* fetchFailed without any test: every final response makes an Object
fetchFailedNever(r) == FALSE

\* fetchFailed without the test of the status
fetchFailedSizeOnly(r) == resolvedSize(r) < 0

\* fetchFailed without the test of the size
fetchFailedStatusOnly(r) == ~statusOK(r)

\* whether NewObject fails on the final response: the status, then the size
fetchFailed(r) == ~statusOK(r) \/ resolvedSize(r) < 0

NewObjectFinish(p) ==
    /\ pc[p] = "finish"
    /\ IF fetchFailed(resp[p])
       THEN /\ ListSkip(p, cur[p].remote)
            /\ UNCHANGED cache
       ELSE /\ cache' = CacheSet(cache, cur[p].cacheKey,
                                 EncodeMeta(resolvedSize(resp[p]),
                                            resolvedModTime(resp[p], now)),
                                 now, cur[p].url, forwarded(cur[p].header))
            /\ ListAppend(p, Object(cur[p].remote, cur[p].url, cur[p].header,
                                    resolvedSize(resp[p]),
                                    resolvedModTime(resp[p], now)))
    /\ NewObjectReturn(p)
    /\ UNCHANGED <<cfgVars, last, sideVars, urlMap, hashCache, now, req, fileHash, out>>

(***************************************************************************)
(* ServeFile after VFS.Stat.                                               *)
(***************************************************************************)
\* Content-Length (known size only) and Last-Modified
fileHeaders(obj) ==
    [h \in (IF obj.size >= 0 THEN {"Content-Length"} ELSE {}) \cup {"Last-Modified"} |->
        IF h = "Content-Length" THEN obj.size ELSE obj.modTime]

\* what h.VFS.Stat(remote) returns: the error, and of the node whether it is a
\* file, whether it has a DirEntry, and the Object behind it
StatResult(err, isFile, hasEntry, obj) ==
    [err |-> err, isFile |-> isFile, hasEntry |-> hasEntry, obj |-> obj]

\* Stat over the link backend: the file List has returned, or ENOENT
statOf(found) ==
    IF found = NoObject THEN StatResult("ENOENT", FALSE, FALSE, NoObject)
    ELSE StatResult("", TRUE, TRUE, found)

\* serveStatus without the return for HEAD
serveStatusNoHead(s, method) ==
    IF s.err = "ENOENT" THEN 404
    ELSE IF s.err # "" THEN 500
    ELSE IF ~s.isFile \/ ~s.hasEntry THEN 404
    ELSE 0

\* serveStatus with every error of Stat answered as not found
serveStatusAll404(s, method) ==
    IF s.err # "" \/ ~s.isFile \/ ~s.hasEntry THEN 404
    ELSE IF method = "HEAD" THEN 200
    ELSE 0

\* the status ServeFile answers with when Stat has returned; 0: it goes on to Open
serveStatus(s, method) ==
    IF s.err = "ENOENT" THEN 404
    ELSE IF s.err # "" THEN 500
    ELSE IF ~s.isFile THEN 404
    ELSE IF ~s.hasEntry THEN 404
    ELSE IF method = "HEAD" THEN 200
    ELSE 0

\* the same over the link backend
statStatus(found, method) == serveStatus(statOf(found), method)

\* ServeFile from the outcome of Stat to the return for HEAD or to file.Open
StatOutcome(s) ==
    [called |-> TRUE, err |-> s.err, isFile |-> s.isFile, hasEntry |-> s.hasEntry]

ServeFileAnswer(p, s) ==
    IF serveStatus(s, req[p].method) \in {404, 500}
    THEN /\ out' = [out EXCEPT ![p].status = serveStatus(s, req[p].method),
                               ![p].stat = StatOutcome(s), ![p].stats = @ + 1]
         /\ pc' = [pc EXCEPT ![p] = "done"]
    ELSE IF serveStatus(s, req[p].method) = 200
    THEN /\ out' = [out EXCEPT ![p].status = 200, ![p].header = fileHeaders(s.obj),
                               ![p].stat = StatOutcome(s), ![p].stats = @ + 1]
         /\ pc' = [pc EXCEPT ![p] = "done"]
    ELSE /\ out' = [out EXCEPT ![p].header = fileHeaders(s.obj), ![p].opened = TRUE,
                               ![p].stat = StatOutcome(s), ![p].stats = @ + 1]
         /\ pc' = [pc EXCEPT ![p] = "open"]

\* List returns; Stat's outcome is mapped and the headers are written
ServeFile(p) ==
    /\ pc[p] = "list"
    /\ todo[p] = {}
    /\ ServeFileAnswer(p, statOf(node[p]))
    /\ bodies' = [bodies EXCEPT ![p] = NoBodies]
    /\ UNCHANGED <<cfgVars, last, sideVars, sharedVars, req, fileHash, todo, entries, node, cur, tries,
                   resp, sent, probes>>

\* ServeFile over any engine: Stat returns s, the outcome is mapped and the headers
\* are written
StatFile(p, s) ==
    /\ pc[p] = "stat"
    /\ node' = [node EXCEPT ![p] = s.obj]
    /\ ServeFileAnswer(p, s)
    /\ UNCHANGED <<cfgVars, last, sideVars, sharedVars, req, fileHash, todo, entries, cur, tries, resp,
                   sent, probes, bodies>>

\* http.ServeContent: the whole file, the range asked for, or 416 for a range
\* that the file does not have
servedStatus(size, range) ==
    IF range = "" THEN 200
    ELSE IF size > 0 THEN 206
    ELSE 416

\* contentStatus without the test of the Range header
contentStatusCopy(size, range) ==
    IF size >= 0 THEN servedStatus(size, range) ELSE 200

\* the status after file.Open: ServeContent for a known size, else 416 for a
\* request with a Range header and a plain copy without
contentStatus(size, range) ==
    IF size >= 0 THEN servedStatus(size, range)
    ELSE IF range # "" THEN 416
    ELSE 200

\* the file bytes that go to the client: what ServeContent serves, nothing with
\* the 416, and what io.Copy copies until it ends or fails
contentCopied(size, range, copyOK) ==
    IF size >= 0 THEN (IF servedStatus(size, range) = 416 THEN "none" ELSE "served")
    ELSE IF contentStatus(size, range) = 416 THEN "none"
    ELSE IF copyOK THEN "all"
    ELSE "some"

\* bodyStatus with a failed copy answered 500
bodyStatusFail(size, range, copyOK) ==
    IF copyOK THEN contentStatus(size, range) ELSE 500

\* the status of the answer when the body has been written: the one sent before the
\* first byte, whether or not the copy fails later
bodyStatus(size, range, copyOK) == contentStatus(size, range)

\* in, err := file.Open(os.O_RDONLY)
fileOpen(o, ok) ==
    [o EXCEPT !.opens = @ + 1, !.handle = IF ok THEN "open" ELSE @]

\* deferClose without the call of Close
deferCloseNever(o) == o

\* defer func() { _ = in.Close() }(), run when ServeFile returns
deferClose(o) ==
    IF o.handle = "open" THEN [o EXCEPT !.handle = "closed", !.closes = @ + 1] ELSE o

\* ServeFile from file.Open to its return: the answer when Open has returned ok and
\* the copy has ended as copyOK says
served(o, ok, size, range, copyOK) ==
    IF ~ok THEN [fileOpen(o, FALSE) EXCEPT !.status = 500]
    ELSE deferClose([fileOpen(o, TRUE) EXCEPT
                        !.status = bodyStatus(size, range, copyOK),
                        !.copied = contentCopied(size, range, copyOK)])

\* file.Open over any engine, and the content after it
FileOpen(p, ok, copyOK) ==
    /\ pc[p] = "open"
    /\ out' = [out EXCEPT ![p] = served(@, ok, node[p].size,
                                        Get(req[p].header, "Range"), copyOK)]
    /\ pc' = [pc EXCEPT ![p] = "done"]
    /\ UNCHANGED <<cfgVars, last, sideVars, sharedVars, req, fileHash, todo, entries, node, cur, tries,
                   resp, sent, probes, bodies>>

(***************************************************************************)
(* Object.Open                                                             *)
(***************************************************************************)
\* the request Open builds: GET o.url, the forwarded headers, the option headers
openReq(obj, options) ==
    [method |-> "GET", url |-> obj.url,
     header |-> [h \in DOMAIN forwarded(obj.header) \cup DOMAIN options |->
                    IF h \in DOMAIN options THEN options[h] ELSE obj.header[h]]]

\* the read options of the engine: a range from the start of the file
OpenOptions == [h \in {"Range"} |-> "bytes=0-"]

\* what the request is answered with when Open has returned
openStatus(r) == IF r.err # "" \/ ~statusOK(r) THEN 500 ELSE 200

\* one client.Do of Open inside pacer.Call, and what follows it
Open(p, r) ==
    /\ pc[p] = "open"
    /\ sent' = [sent EXCEPT ![p] = openReq(node[p], OpenOptions)]
    /\ tries' = [tries EXCEPT ![p] = @ + 1]
    /\ IF pacerAgain(tries[p] + 1, r)
       THEN /\ resp' = [resp EXCEPT ![p] = r]
            /\ UNCHANGED <<pc, out>>
       ELSE /\ resp' = [resp EXCEPT ![p] = NoResp]
            /\ out' = [out EXCEPT ![p] = served(@, openStatus(r) # 500, node[p].size,
                                                Get(req[p].header, "Range"), TRUE)]
            /\ pc' = [pc EXCEPT ![p] = "done"]
    /\ UNCHANGED <<cfgVars, last, sideVars, sharedVars, req, fileHash, todo, entries, node, cur, probes, bodies>>

\* the handler returns; the goroutine is free for the next request
Return(p) ==
    /\ pc[p] = "done"
    /\ pc' = [pc EXCEPT ![p] = "idle"]
    /\ req' = [req EXCEPT ![p] = NoReq]
    /\ fileHash' = [fileHash EXCEPT ![p] = None]
    /\ todo' = [todo EXCEPT ![p] = {}]
    /\ entries' = [entries EXCEPT ![p] = {}]
    /\ node' = [node EXCEPT ![p] = NoObject]
    /\ cur' = [cur EXCEPT ![p] = NoCur]
    /\ tries' = [tries EXCEPT ![p] = 0]
    /\ resp' = [resp EXCEPT ![p] = NoResp]
    /\ sent' = [sent EXCEPT ![p] = NoSent]
    /\ probes' = [probes EXCEPT ![p] = NoProbes]
    /\ bodies' = [bodies EXCEPT ![p] = NoBodies]
    /\ out' = [out EXCEPT ![p] = NoOut]
    /\ UNCHANGED <<cfgVars, last, sideVars, sharedVars>>

(***************************************************************************)
(* Environment: the clock, and freecache dropping entries for space.       *)
(***************************************************************************)
Tick ==
    /\ now < MaxTicks * TickStep
    /\ now' = now + TickStep
    /\ UNCHANGED <<cfgVars, last, sideVars, urlMap, hashCache, cache, procVars>>

Evict(k) ==
    /\ k \in DOMAIN cache
    /\ cache' = CacheDel(cache, k)
    /\ UNCHANGED <<cfgVars, last, sideVars, urlMap, hashCache, now, procVars>>

(***************************************************************************)
(* The write operations of the backend, and Shutdown.                      *)
(***************************************************************************)
FsOps == {"Put", "Mkdir", "Rmdir"}

ObjectOps == {"SetModTime", "Remove", "Update"}

\* writeErr with a Remove that reports no error
writeErrRemoveNil(op) == IF op \in {"Mkdir", "Remove"} THEN "" ELSE "errorReadOnly"

\* the error a write operation returns
writeErr(op) == IF op = "Mkdir" THEN "" ELSE "errorReadOnly"

\* written with a Remove that takes the entry of the Object out of the table
writtenRemoved(m, op, remote) ==
    IF op = "Remove" THEN [x \in DOMAIN m \ {remote} |-> m[x]] ELSE m

\* the identity table after a write operation on the Object of remote: none of
\* them touches urlMap
written(m, op, remote) == m

\* Fs.Put, Fs.Mkdir, Fs.Rmdir
FsCall(op) ==
    /\ last.op # "Shutdown"
    /\ last' = [op |-> op, err |-> writeErr(op), name |-> <<>>]
    /\ UNCHANGED <<cfgVars, sideVars, sharedVars, procVars>>

\* Object.SetModTime, Object.Remove, Object.Update on the Object a call of List
\* has returned
ObjectCall(p, op) ==
    /\ last.op # "Shutdown"
    /\ node[p] # NoObject
    /\ last' = [op |-> op, err |-> writeErr(op), name |-> node[p].remote]
    /\ urlMap' = written(urlMap, op, node[p].remote)
    /\ UNCHANGED <<cfgVars, sideVars, hashCache, cache, now, procVars>>

\* readErr with a NewObject that reports no error for a name it does not find
readErrNoObject(m, op, name) == IF op = "List" /\ name # <<>> THEN "ErrorDirNotFound" ELSE ""

\* the error List(dir) and NewObject(remote) return before they resolve anything:
\* for a directory that is not the root, and for a name urlMap.Load does not find
readErr(m, op, name) ==
    IF op = "List" THEN (IF name # <<>> THEN "ErrorDirNotFound" ELSE "")
    ELSE IF ~Load(m, name)[2] THEN "ErrorObjectNotFound"
    ELSE ""

\* Fs.List(dir) for a directory other than the root (names are sequences, the
\* root the empty one) and Fs.NewObject(remote) for a
\* name that is not registered, as the engine may call them: they return at once.
\* (List of the root is Stat above, NewObject of a registered name NewObjectLookup.)
FsRead(op, name) ==
    /\ last.op # "Shutdown"
    /\ IF op = "List" THEN name # <<>> ELSE name \notin DOMAIN urlMap
    /\ last' = [op |-> op, err |-> readErr(urlMap, op, name), name |-> name]
    /\ UNCHANGED <<cfgVars, sideVars, sharedVars, procVars>>

\* Handler.Shutdown, called when the server has shut down: h.VFS.Shutdown()
Shutdown ==
    /\ \A p \in Procs : pc[p] = "idle"
    /\ last.op # "Shutdown"
    /\ last' = [op |-> "Shutdown", err |-> "", name |-> <<>>]
    /\ UNCHANGED <<cfgVars, sideVars, sharedVars, procVars>>

NextWith(requests, responses) ==
    \/ \E p \in Procs, r \in requests : Serve(p, r)
    \/ \E p \in Procs : GetFileHashStore(p)
    \/ \E p \in Procs : ServeRegister(p)
    \/ \E p \in Procs : Stat(p)
    \/ \E p \in Procs : \E remote \in todo[p] : NewObjectLookup(p, remote)
    \/ \E p \in Procs, r \in responses : HeadDo(p, r)
    \/ \E p \in Procs, r \in responses : GetDo(p, r)
    \/ \E p \in Procs : NewObjectFinish(p)
    \/ \E p \in Procs : ServeFile(p)
    \/ \E p \in Procs, r \in responses : Open(p, r)
    \/ \E p \in Procs : Return(p)
    \/ Tick
    \/ \E k \in DOMAIN cache : Evict(k)

Next == NextWith(Requests, Responses)

Spec == Init /\ [][Next]_vars

\* One target URL, no stripping, no sharding, and every kind of upstream answer
ProbeInit == InitWith({1}, {<<FALSE, FALSE, 0>>})

ProbeNext == NextWith(ProbeRequests, ProbeResponses)

ProbeSpec == ProbeInit /\ [][ProbeNext]_vars

\* One target URL and the responses of Spec, with a goroutine that keeps running
\* and an upstream that answers every request, or fails it, in the end: a call of
\* client.Do returns, the pacer's sleep ends, and the code after the probes runs
FairProbeSpec ==
    /\ ProbeInit
    /\ [][NextWith({r \in ProbeRequests : r.header = HdrTok1}, Responses)]_vars
    /\ WF_vars(\E r \in Responses : HeadDo(1, r))
    /\ WF_vars(\E r \in Responses : GetDo(1, r))
    /\ WF_vars(NewObjectFinish(1))

\* The handler over an engine with any backend: Stat and file.Open return what such
\* an engine can return, files of unknown size among it
FileObject(size, modTime) == Object(<<"file">>, <<>>, NoHeader, size, modTime)

\* not found, another error, a directory, a file being written, and files
StatResults ==
    {StatResult("ENOENT", FALSE, FALSE, NoObject),
     StatResult("EIO", FALSE, FALSE, NoObject),
     StatResult("", FALSE, TRUE, NoObject),
     StatResult("", TRUE, FALSE, NoObject)}
    \cup {StatResult("", TRUE, TRUE, FileObject(n, 100)) : n \in {-1, 0, 5}}

FileNext ==
    \/ \E p \in Procs, r \in FileRequests : Serve(p, r)
    \/ \E p \in Procs : GetFileHashStore(p)
    \/ \E p \in Procs : ServeRegister(p)
    \/ \E p \in Procs, s \in StatResults : StatFile(p, s)
    \/ \E p \in Procs, ok \in BOOLEAN, copyOK \in BOOLEAN : FileOpen(p, ok, copyOK)
    \/ \E p \in Procs : Return(p)
    \/ Tick

FileSpec == ProbeInit /\ [][FileNext]_vars

\* Two requests served at once (net/http runs each in its own goroutine), for two
\* target URLs that are one file once the query is stripped
RaceRequests ==
    {[url |-> UrlA1, header |-> HdrTok1, method |-> "GET"],
     [url |-> UrlA2, header |-> HdrSid, method |-> "GET"]}

RaceResponses ==
    {Response("", 404, 0, <<>>, <<>>), Response("", 200, 5, <<>>, <<>>),
     Response("", 206, 1, RangeTotal7, LastModDate)}

RaceInit == InitWith({1, 2}, {<<TRUE, FALSE, 0>>})

RaceNext == NextWith(RaceRequests, RaceResponses)

RaceSpec == RaceInit /\ [][RaceNext]_vars

\* The handler together with callers of the write operations of the backend, for
\* two files
BackendRequests == [url : TargetURLs, header : {HdrTok1}, method : {"GET"}]

BackendResponses == {Response("", 404, 0, <<>>, <<>>), Response("", 200, 5, <<>>, <<>>)}

BackendInit == InitWith({1}, {<<FALSE, FALSE, 0>>})

BackendNext ==
    \/ NextWith(BackendRequests, BackendResponses)
    \/ \E op \in FsOps : FsCall(op)
    \/ \E p \in Procs, op \in ObjectOps : ObjectCall(p, op)
    \/ \E u \in TargetURLs : FsRead("NewObject", md5Hex(u))
    \/ \E dir \in {<<>>, <<"d">>} : FsRead("List", dir)
    \/ Shutdown

BackendSpec == BackendInit /\ [][BackendNext]_vars

\* One request after the other, for one file under two target URLs, each with the
\* credentials of one client or of another
CredSpec ==
    /\ Init
    /\ [][NextWith([url : TargetURLs, header : {HdrTok1, HdrSid}, method : {"GET"}],
                   RaceResponses)]_vars

(***************************************************************************)
(* caddy/vfs.go: the handler behind Caddy's ResponseRecorder.              *)
(***************************************************************************)
\* whether the handler has called WriteHeader or Write: http.Error, ServeContent
\* and a copy do; the return for HEAD does not
wroteHeader(o) == o.status # 200 \/ o.copied # "none"

\* rec.Buffered(): the recorder streams once WriteHeader has been called with a
\* status that shouldBuffer does not want; until then, and for a 404, it does not
Buffered(o) == ~(wroteHeader(o) /\ o.status # 404)

\* VFS.ServeHTTP when v.handler.Serve has returned: the next handler is called if
\* the recorder is in use and has not streamed
ServeHTTPReturn(p) ==
    /\ pc[p] = "done"
    /\ LET rec == front.passthrough /\ front.next
       IN  front' = [front EXCEPT
                       !.status = out[p].status,
                       !.wrote = wroteHeader(out[p]),
                       !.nextCalls = IF rec /\ Buffered(out[p]) THEN 1 ELSE 0,
                       !.client = IF rec /\ Buffered(out[p]) THEN 0 ELSE out[p].status]
    /\ pc' = [pc EXCEPT ![p] = "idle"]
    /\ req' = [req EXCEPT ![p] = NoReq]
    /\ fileHash' = [fileHash EXCEPT ![p] = None]
    /\ node' = [node EXCEPT ![p] = NoObject]
    /\ out' = [out EXCEPT ![p] = NoOut]
    /\ UNCHANGED <<cfgVars, last, rawURL, stripped, meta, main, sharedVars, todo, entries, cur,
                   tries, resp, sent, probes, bodies>>

\* the Caddy module as provisioned: Passthrough set or not, a next handler in
\* the chain or not
CaddyInit ==
    /\ rawURL = None
    /\ stripped = <<>>
    /\ meta = None
    /\ main = NoMain
    /\ front \in {[NoFront EXCEPT !.passthrough = pt, !.next = nx] :
                     pt \in BOOLEAN, nx \in BOOLEAN}
    /\ InitState({1}, {<<FALSE, FALSE, 0>>})

\* requests through VFS.ServeHTTP, one at a time
CaddySpec ==
    /\ CaddyInit
    /\ [][\/ \E r \in FileRequests : Serve(1, r)
          \/ GetFileHashStore(1)
          \/ ServeRegister(1)
          \/ \E s \in StatResults : StatFile(1, s)
          \/ \E ok \in BOOLEAN, copyOK \in BOOLEAN : FileOpen(1, ok, copyOK)
          \/ ServeHTTPReturn(1)]_vars

(***************************************************************************)
(* main.go: the target URL of a request, from the 'url' parameter or from  *)
(* the base64 text after /stream/.                                         *)
(***************************************************************************)
\* encoding/base64: the alphabet of URLEncoding and RawURLEncoding
encodeURL ==
    <<"A", "B", "C", "D", "E", "F", "G", "H", "I", "J", "K", "L", "M", "N", "O", "P",
      "Q", "R", "S", "T", "U", "V", "W", "X", "Y", "Z", "a", "b", "c", "d", "e", "f",
      "g", "h", "i", "j", "k", "l", "m", "n", "o", "p", "q", "r", "s", "t", "u", "v",
      "w", "x", "y", "z", "0", "1", "2", "3", "4", "5", "6", "7", "8", "9", "-", "_">>

\* the longest text the model puts after /stream/
MaxSeg == 4

\* Encoding.DecodeString with the alphabet encodeURL, padded with "=" (URLEncoding)
\* or not (RawURLEncoding): four characters give three bytes; a last group of two
\* or three gives one or two, and wants its padding if the encoding pads; any
\* other character, and a group of one, is an error
RECURSIVE DecodeString(_, _)
DecodeString(padded, s) ==
    IF s = <<>> THEN [ok |-> TRUE, bytes |-> <<>>]
    ELSE
        LET valid(k) == k <= Len(s) /\ \E i \in 1..64 : encodeURL[i] = s[k]
            n == IF ~valid(1) THEN 0 ELSE IF ~valid(2) THEN 1 ELSE IF ~valid(3) THEN 2
                 ELSE IF ~valid(4) THEN 3 ELSE 4
            six(k) == IF k <= n THEN (CHOOSE i \in 1..64 : encodeURL[i] = s[k]) - 1 ELSE 0
            val == six(1) * 262144 + six(2) * 4096 + six(3) * 64 + six(4)
            all == <<val \div 65536, (val \div 256) % 256, val % 256>>
            bad == [ok |-> FALSE, bytes |-> <<>>]
        IN  IF n = 4
            THEN LET rest == DecodeString(padded, SubSeq(s, 5, Len(s)))
                 IN  IF rest.ok THEN [ok |-> TRUE, bytes |-> all \o rest.bytes] ELSE bad
            ELSE IF n < 2 THEN bad
            ELSE IF Len(s) = n
            THEN IF padded THEN bad ELSE [ok |-> TRUE, bytes |-> SubSeq(all, 1, n - 1)]
            ELSE IF padded /\ Len(s) = 4 /\ \A k \in (n + 1)..4 : s[k] = "="
            THEN [ok |-> TRUE, bytes |-> SubSeq(all, 1, n - 1)]
            ELSE bad

\* mainHandler: the 'url' parameter, or else the text after /stream/ decoded as
\* RawURLEncoding, or else as URLEncoding; without a target URL 400, with one Serve
mainHandler ==
    /\ ~main.called
    /\ LET query == main.query
           path == main.path
           pre == <<"/", "s", "t", "r", "e", "a", "m", "/">>
           encodedURL == SubSeq(path, Len(pre) + 1, Len(path))
           raw == DecodeString(FALSE, encodedURL)
           pad == DecodeString(TRUE, encodedURL)
           targetURL == IF query # <<>> \/ ~HasPrefix(path, pre) THEN query
                        ELSE IF raw.ok THEN raw.bytes
                        ELSE IF pad.ok THEN pad.bytes
                        ELSE <<>>
       IN  main' = [main EXCEPT !.called = TRUE,
                                !.target = targetURL,
                                !.status = IF targetURL = <<>> THEN 400 ELSE 0,
                                !.serves = IF targetURL = <<>> THEN 0 ELSE 1]
    /\ UNCHANGED <<cfgVars, last, rawURL, stripped, meta, front, sharedVars, procVars>>

\* requests to /stream and /stream/<text>, with and without a 'url' parameter
MainInit ==
    /\ rawURL = None
    /\ stripped = <<>>
    /\ meta = None
    /\ main \in {[NoMain EXCEPT !.query = query, !.path = path] :
                    query \in {<<>>, <<104>>},
                    path \in {<<"/", "s", "t", "r", "e", "a", "m">>} \cup
                             {<<"/", "s", "t", "r", "e", "a", "m", "/">> \o seg :
                                seg \in UNION {[1..n -> {"P", "w", "z", "8", "/", "_", "="}] :
                                                  n \in 0..MaxSeg}}}
    /\ front = NoFront
    /\ InitState({1}, {<<FALSE, FALSE, 0>>})

MainSpec == MainInit /\ [][mainHandler]_vars

(***************************************************************************)
(* The cache record on its own: NewObject's 16 bytes, written and read     *)
(* back. An int64 is four 16-bit limbs, the lowest first, in two's         *)
(* complement; a time.Time is its Unix seconds (an int64) and nanoseconds. *)
(***************************************************************************)
\* Time.UnixNano: seconds * 1e9 + nanoseconds in 64 bits, whatever does not fit lost
UnixNano(t) ==
    LET mul(x, m) ==
            LET c1 == x[1] * m
                c2 == (x[2] * m) + (c1 \div 65536)
                c3 == (x[3] * m) + (c2 \div 65536)
                c4 == (x[4] * m) + (c3 \div 65536)
            IN  <<c1 % 65536, c2 % 65536, c3 % 65536, c4 % 65536>>
        n  == mul(mul(mul(t.sec, 1000), 1000), 1000)
        a1 == n[1] + (t.nsec % 65536)
        a2 == n[2] + (t.nsec \div 65536) + (a1 \div 65536)
        a3 == n[3] + (a2 \div 65536)
        a4 == n[4] + (a3 \div 65536)
    IN  <<a1 % 65536, a2 % 65536, a3 % 65536, a4 % 65536>>

\* time.Unix(0, nsec): the seconds are nsec / 1e9 rounded down, the nanoseconds
\* what is left, 0 to 999999999
Unix(nsec) ==
    LET neg(x) ==
            LET c1 == 65535 - x[1] + 1
                c2 == 65535 - x[2] + (c1 \div 65536)
                c3 == 65535 - x[3] + (c2 \div 65536)
                c4 == 65535 - x[4] + (c3 \div 65536)
            IN  <<c1 % 65536, c2 % 65536, c3 % 65536, c4 % 65536>>
        div(x, m) ==
            LET r4 == x[4]
                r3 == (r4 % m) * 65536 + x[3]
                r2 == (r3 % m) * 65536 + x[2]
                r1 == (r2 % m) * 65536 + x[1]
            IN  [q |-> <<r1 \div m, r2 \div m, r3 \div m, r4 \div m>>, r |-> r1 % m]
        below == nsec[4] >= 32768
        d1 == div(IF below THEN neg(nsec) ELSE nsec, 1000)
        d2 == div(d1.q, 1000)
        d3 == div(d2.q, 1000)
        left == d1.r + 1000 * d2.r + 1000000 * d3.r
    IN  IF ~below THEN [sec |-> d3.q, nsec |-> left]
        ELSE IF left = 0 THEN [sec |-> neg(d3.q), nsec |-> 0]
        ELSE [sec |-> [i \in 1..4 |-> 65535 - d3.q[i]], nsec |-> 1000000000 - left]

\* binary.LittleEndian.PutUint64(buf, uint64(x)): the eight bytes, the lowest first
PutUint64(x) ==
    [i \in 1..8 |-> IF i % 2 = 1 THEN x[(i + 1) \div 2] % 256 ELSE x[i \div 2] \div 256]

\* int64(binary.LittleEndian.Uint64(b))
Uint64(b) == [i \in 1..4 |-> b[2 * i - 1] + 256 * b[2 * i]]

\* sizes 0, 5, 2^31 and 2^63 - 1, and modification times as http.ParseTime and the
\* clock give them:
\*   100 s after the epoch
\*   Wed, 21 Oct 2020 07:28:00 GMT
\*   the clock in 2020, with nanoseconds
\*   Wed, 31 Dec 1969 23:59:59 GMT
\*   Fri, 11 Apr 2262 23:47:16 GMT, the last second that fits
\*   Fri, 11 Apr 2262 23:47:17 GMT
\*   Mon, 01 Jan 2300 00:00:00 GMT
\*   Fri, 31 Dec 9999 23:59:59 GMT
\*   Tue, 21 Sep 1677 00:12:44 GMT, the first second that fits
\*   Mon, 01 Jan 1601 00:00:00 GMT
MetaInit ==
    /\ rawURL = None
    /\ stripped = <<>>
    /\ meta \in [size : {<<0, 0, 0, 0>>,
         <<5, 0, 0, 0>>,
         <<0, 32768, 0, 0>>,
         <<65535, 65535, 65535, 32767>>},
                 modTime : {[sec |-> <<100, 0, 0, 0>>, nsec |-> 0],
         [sec |-> <<58112, 24463, 0, 0>>, nsec |-> 0],
         [sec |-> <<58112, 24463, 0, 0>>, nsec |-> 123456789],
         [sec |-> <<65535, 65535, 65535, 65535>>, nsec |-> 0],
         [sec |-> <<32004, 9665, 2, 0>>, nsec |-> 0],
         [sec |-> <<32005, 9665, 2, 0>>, nsec |-> 0],
         [sec |-> <<56064, 27829, 2, 0>>, nsec |-> 0],
         [sec |-> <<16767, 65524, 58, 0>>, nsec |-> 0],
         [sec |-> <<33532, 55870, 65533, 65535>>, nsec |-> 0],
         [sec |-> <<28416, 18927, 65533, 65535>>, nsec |-> 0]},
                 buf : {<<>>},
                 got : {None}]
    /\ main = NoMain
    /\ front = NoFront
    /\ InitState({1}, {<<FALSE, FALSE, 0>>})

\* NewObject after a probe: the 16 bytes that go into the cache; and NewObject at
\* a hit: the size and the modification time made of the bytes
MetaCall ==
    /\ meta.got = None
    /\ meta' = IF meta.buf = <<>>
               THEN [meta EXCEPT !.buf = PutUint64(meta.size) \o
                                          PutUint64(UnixNano(meta.modTime))]
               ELSE [meta EXCEPT !.got = [size |-> Uint64(SubSeq(meta.buf, 1, 8)),
                                          modTime |-> Unix(Uint64(SubSeq(meta.buf, 9, 16)))]]
    /\ UNCHANGED <<cfgVars, last, rawURL, stripped, main, front, sharedVars, procVars>>

MetaSpec == MetaInit /\ [][MetaCall]_vars

(***************************************************************************)
(* StripURL on its own, for every string of a few characters and every    *)
(* pair of flags.                                                          *)
(***************************************************************************)
\* longest string StripURL is called with first
MaxLen == 5

\* the strings over a letter and the delimiters of a URL
StripInputs == UNION {[1..n -> {"h", ":", "/", "?", "#", "@"}] : n \in 0..MaxLen}

StripInit ==
    /\ rawURL \in StripInputs
    /\ stripped = <<>>
    /\ meta = None
    /\ main = NoMain
    /\ front = NoFront
    /\ InitState({1}, {<<sq, sd, 0>> : sq \in BOOLEAN, sd \in BOOLEAN})

\* StripURL(u, stripQuery, stripDomain), and then StripURL of what it returned
StripCall ==
    /\ Len(stripped) < 2
    /\ stripped' = Append(stripped,
                          StripURL(IF stripped = <<>> THEN rawURL
                                   ELSE stripped[Len(stripped)],
                                   stripQuery, stripDomain))
    /\ UNCHANGED <<cfgVars, last, rawURL, meta, main, front, sharedVars, procVars>>

StripSpec == StripInit /\ [][StripCall]_vars

(***************************************************************************)
(* Properties.                                                             *)
(***************************************************************************)
\* the canonical forms of the target URLs, tabulated
CanonOf ==
    [u \in TargetURLs |->
        [sq \in BOOLEAN |-> [sd \in BOOLEAN |-> StripURL(u, sq, sd)]]]

\* the canonical form of a target URL under the configuration of the run
Canon(u) == CanonOf[u][stripQuery][stripDomain]

\* the cache entries that are younger than the lifetime of 3600 seconds
Fresh(k) == k \in DOMAIN cache /\ now - cache[k].at < 3600

\* the step of p is a call of NewObject(r) by List that ends at the cache (a hit)
\* or goes on to the probes (a miss)
LookupHit(p, r) == pc[p] = "list" /\ r \in todo[p] /\ pc'[p] = "list" /\ r \notin todo'[p]

LookupMiss(p, r) == pc[p] = "list" /\ r \in todo[p] /\ pc'[p] = "head" /\ cur'[p].remote = r

\* C1 (as the specification states it): registering an identifier that is already
\* registered, with a different URL, leaves its entry as the first registration made
\* it: the URL and the headers of the first registration.
C1_FirstWriterWins ==
    [][\A p \in Procs :
          (/\ pc[p] = "register"
           /\ pc'[p] = "stat"
           /\ fileHash[p] \in DOMAIN urlMap
           /\ urlMap[fileHash[p]].url # req[p].url)
          => urlMap'[fileHash[p]] = urlMap[fileHash[p]]]_vars

C3_TTL ==
    [][\A p \in Procs : \A r \in DOMAIN urlMap :
          LET k == cacheKeyOf(urlMap[r].url, stripQuery, stripDomain)
          IN  /\ LookupHit(p, r) \/ LookupMiss(p, r) =>
                    IF Fresh(k)
                    THEN /\ LookupHit(p, r)
                         /\ r \in entries'[p]
                         /\ sent'[p] = sent[p]
                         /\ probes'[p] = probes[p]
                         /\ shardLevel = 0 /\ r = fileHash[p] =>
                               /\ node'[p].size = DecodeSize(cache[k].val)
                               /\ node'[p].modTime = DecodeModTime(cache[k].val)
                    ELSE LookupMiss(p, r)]_vars

\* C3 witness: a probe has begun although the entry is still stored: it is 3600
\* seconds old or older.
C3_Witness ==
    \E p \in Procs :
        /\ pc[p] = "head"
        /\ cur[p].cacheKey \in DOMAIN cache
        /\ now - cache[cur[p].cacheKey].at >= 3600

\* the step of p is an attempt of a probe: a request has been sent
Attempt(p) == Len(probes'[p].methods) > Len(probes[p].methods)

\* C4: the probes of a call begin with HEAD; the GET probe follows exactly when the
\* HEAD probe ended with an error, a status other than 200 or a negative content
\* length, and it carries Range: bytes=0-0; after a HEAD answer of 200 with a known
\* length no GET is sent.
C4_ProbeOrder ==
    [][\A p \in Procs :
          /\ pc'[p] = "head" /\ pc[p] # "head" => pc[p] = "list"
          /\ pc'[p] = "get" /\ pc[p] # "get" => pc[p] = "head"
          /\ pc[p] = "head" /\ Attempt(p) =>
                /\ sent'[p].method = "HEAD"
                /\ "Range" \notin DOMAIN sent'[p].header
                /\ pc'[p] # "head" =>
                      pc'[p] = IF \/ resp'[p].err # ""
                                  \/ resp'[p].StatusCode # 200
                                  \/ resp'[p].ContentLength < 0
                               THEN "get" ELSE "finish"
          /\ pc[p] = "get" /\ Attempt(p) =>
                /\ sent'[p].method = "GET"
                /\ Get(sent'[p].header, "Range") = "bytes=0-0"]_vars

\* C4 witness: HEAD was answered 200 without a content length, and the GET probe is
\* about to be sent.
C4_Witness ==
    \E p \in Procs :
        /\ pc[p] = "get"
        /\ sent[p].method = "HEAD"
        /\ resp[p].err = ""
        /\ resp[p].StatusCode = 200
        /\ resp[p].ContentLength < 0

\* C5: a probe attempt is followed by another attempt of the same probe only if it
\* was answered 429, 500, 502, 503, 504 or 509 or ended in a retryable network error.
C5_RetryClassification ==
    \A p \in Procs :
        pc[p] \in {"head", "get"} /\ tries[p] > 0 =>
            IF resp[p].err # "" THEN resp[p].err = "ECONNRESET"
            ELSE resp[p].StatusCode \in {429, 500, 502, 503, 504, 509}

\* C5 witness: the HEAD probe is about to be repeated after a 509.
C5_Witness ==
    \E p \in Procs : pc[p] = "head" /\ tries[p] = 1 /\ resp[p].StatusCode = 509

\* C6: when every attempt is answered 503, each probe is attempted more than once
\* (as often as the pacer allows), and the call then returns an error: no Object,
\* and the cache as it was.
C6_RetryExhaustion ==
    [][\A p \in Procs :
          /\ pc'[p] = "finish" /\ probes'[p].all503 =>
                /\ Retries > 1
                /\ probes'[p].methods =
                       [i \in 1..(2 * Retries) |-> IF i <= Retries THEN "HEAD" ELSE "GET"]
          /\ pc[p] = "finish" /\ probes[p].all503 /\ pc'[p] # "finish" =>
                /\ cache' = cache
                /\ cur[p].remote \notin entries'[p]
                /\ node'[p] = node[p]]_vars

\* C6 witness: both probes have used up their attempts on 503 answers.
C6_Witness ==
    \E p \in Procs : pc[p] = "finish" /\ probes[p].all503 /\ resp[p].StatusCode = 503

\* C7: a call of NewObject that went to the probes returns an Object exactly when
\* the final response has status 200 or 206 and the resolved size is not negative.
C7_ResolutionOutcome ==
    [][\A p \in Procs :
          pc[p] \in {"head", "get", "finish"} /\ pc'[p] = "list" =>
              (cur[p].remote \in entries'[p]
               <=> /\ pc[p] = "finish"
                   /\ resp[p].err = ""
                   /\ resp[p].StatusCode \in {200, 206}
                   /\ resolvedSize(resp[p]) >= 0)]_vars

\* C7 witness: the final response is a 206 whose Content-Range gives the total 7,
\* although its content length is unknown.
C7_Witness ==
    \E p \in Procs :
        /\ pc[p] = "finish"
        /\ resp[p].StatusCode = 206
        /\ resp[p].ContentLength < 0
        /\ resolvedSize(resp[p]) = 7

\* C8 (as the specification states it): a request whose identifier could not be
\* resolved is answered 500.
C8_FailureIs500 ==
    \A p \in Procs :
        pc[p] = "done" /\ fileHash[p] # None /\ fileHash[p] \notin entries[p]
        => out[p].status = 500

\* C9: an upstream request carries Authorization and Cookie exactly when the
\* identity entry has them non-empty, with the entry's values, and nothing else of
\* the entry; the only other header is the Range the code itself sets. So the
\* headers of the request are decided by the entry's Authorization and Cookie alone.
C9_HeaderAllowList ==
    \A p \in Procs :
        sent[p] # NoSent =>
            LET stored == IF cur[p] # NoCur THEN cur[p].header ELSE node[p].header
            IN  \A h \in DOMAIN stored \cup DOMAIN sent[p].header :
                    IF h \in {"Authorization", "Cookie"}
                    THEN /\ h \in DOMAIN sent[p].header <=> Get(stored, h) # ""
                         /\ h \in DOMAIN sent[p].header => sent[p].header[h] = stored[h]
                    ELSE h \in DOMAIN sent[p].header =>
                             /\ h = "Range"
                             /\ sent[p].header[h] \in {"bytes=0-0", "bytes=0-"}

\* C9 witness: the entry has a User-Agent, the request sent has Authorization.
C9_Witness ==
    \E p \in Procs :
        /\ sent[p].method = "HEAD"
        /\ "User-Agent" \in DOMAIN cur[p].header
        /\ "Authorization" \in DOMAIN sent[p].header

\* C10 (as the specification states it): Object.Open sends its GET once for a call:
\* while the call runs no request has been sent, and when it has returned one has.
C10_OpenOnce ==
    \A p \in Procs :
        /\ pc[p] = "open" => tries[p] = 0
        /\ pc[p] = "done" /\ out[p].opened => tries[p] = 1

\* C10 (amended): Object.Open sends its GET at least once and at most as often as
\* the pacer allows, and it sends it again only after an answer of 429, 500, 502,
\* 503, 504 or 509 or a retryable network error.
C10_OpenRetries ==
    \A p \in Procs :
        /\ pc[p] = "open" =>
              /\ tries[p] < Retries
              /\ tries[p] > 0 =>
                    IF resp[p].err # "" THEN resp[p].err = "ECONNRESET"
                    ELSE resp[p].StatusCode \in {429, 500, 502, 503, 504, 509}
        /\ pc[p] = "done" /\ out[p].opened => tries[p] \in 1..Retries

\* C10 witness: Open is about to send its GET a second time, after a 503.
C10_Witness ==
    \E p \in Procs :
        pc[p] = "open" /\ tries[p] = 1 /\ resp[p].err = "" /\ resp[p].StatusCode = 503

\* C11: a request with an empty target URL is answered 400 at once: the identity
\* table, the hash cache and the metadata cache stay as they are from its arrival
\* to its return, the engine is not asked for the file and nothing is sent upstream.
C11_EmptyTarget ==
    [][\A p \in Procs :
          /\ pc[p] = "idle" /\ pc'[p] # "idle" /\ req'[p].url = <<>> =>
                /\ pc'[p] = "done"
                /\ out'[p].status = 400
                /\ ~out'[p].opened
                /\ sent'[p] = NoSent
                /\ todo'[p] = {} /\ entries'[p] = {} /\ node'[p] = NoObject
                /\ urlMap' = urlMap /\ hashCache' = hashCache /\ cache' = cache
          /\ pc[p] = "done" /\ req[p].url = <<>> /\ pc'[p] # "done" =>
                /\ pc'[p] = "idle"
                /\ urlMap' = urlMap /\ hashCache' = hashCache /\ cache' = cache]_vars

\* C11 witness: the request with the empty target URL has been answered while the
\* tables hold the entries of an earlier request.
C11_Witness ==
    \E p \in Procs :
        /\ pc[p] = "done"
        /\ req[p].url = <<>>
        /\ out[p].status = 400
        /\ DOMAIN urlMap # {}
        /\ DOMAIN cache # {}

\* C12: a request with method HEAD never comes to file.Open, and no file bytes go
\* to the client.
C12_HeadServing ==
    \A p \in Procs :
        req[p].method = "HEAD" =>
            /\ pc[p] # "open"
            /\ ~out[p].opened
            /\ out[p].copied = "none"

\* C12 witness: the HEAD request for a file has been answered 200 with the length
\* of the file in the headers.
C12_Witness ==
    \E p \in Procs :
        /\ pc[p] = "done"
        /\ req[p].method = "HEAD"
        /\ out[p].status = 200
        /\ "Content-Length" \in DOMAIN out[p].header

\* a GET request has come to file.Open for a file of unknown size, and is answered
UnknownSizeServed(p) ==
    /\ pc[p] = "done"
    /\ req[p].method = "GET"
    /\ out[p].opened
    /\ node[p].size < 0

\* C13 (as the specification states it): a GET request for a file of unknown size
\* is answered 416 without file bytes if it has a Range header, and gets the whole
\* file by a plain copy if it has none.
C13_UnknownSizeRange ==
    \A p \in Procs :
        UnknownSizeServed(p) =>
            IF Get(req[p].header, "Range") # ""
            THEN out[p].status = 416 /\ out[p].copied = "none"
            ELSE out[p].copied = "all"

\* C13 (amended): the same once file.Open has succeeded, and with the copy ending
\* early if it fails; a failed file.Open is answered 500.
C13_UnknownSizeOpened ==
    \A p \in Procs :
        UnknownSizeServed(p) =>
            \/ out[p].status = 500 /\ out[p].copied = "none"
            \/ IF Get(req[p].header, "Range") # ""
               THEN out[p].status = 416 /\ out[p].copied = "none"
               ELSE out[p].status = 200 /\ out[p].copied \in {"all", "some"}

\* C13 witness: the request with a Range header for a file of unknown size has
\* been answered 416.
C13_Witness ==
    \E p \in Procs :
        /\ UnknownSizeServed(p)
        /\ Get(req[p].header, "Range") # ""
        /\ out[p].status = 416

\* C14: when Stat returns not found the answer is 404, for any other error of Stat
\* it is 500, and for a node that is no file or has no entry it is 404; in each
\* case no header is written and file.Open is not called.
C14_StatMapping ==
    \A p \in Procs :
        LET st == out[p].stat
        IN  st.called /\ (st.err # "" \/ ~st.isFile \/ ~st.hasEntry) =>
                /\ pc[p] = "done"
                /\ out[p].status = IF st.err = "ENOENT" THEN 404
                                   ELSE IF st.err # "" THEN 500
                                   ELSE 404
                /\ out[p].header = NoHeader
                /\ ~out[p].opened
                /\ out[p].copied = "none"

\* C14 witness: Stat has returned an error other than not found, and the answer
\* is 500.
C14_Witness ==
    \E p \in Procs :
        /\ out[p].stat.called
        /\ out[p].stat.err = "EIO"
        /\ out[p].status = 500

\* NewObject returns an Object from the final response of its probes
ProbeSuccess(p) ==
    /\ pc[p] = "finish"
    /\ pc'[p] = "list"
    /\ cur[p].remote \in entries'[p]

\* C15: the size of the Object and of the cache record is the total T of the
\* Content-Range header "bytes s-e/T" when the final response is a 206 that has
\* one in that form, and the content length of the final response otherwise.
C15_SizeFromContentRange ==
    [][\A p \in Procs :
          ProbeSuccess(p) =>
              LET r    == resp[p]
                  size == IF r.StatusCode = 206 /\ r.ContentRange = RangeTotal7
                          THEN 7
                          ELSE r.ContentLength
              IN  /\ node'[p].size = size
                  /\ cur[p].cacheKey \in DOMAIN cache'
                  /\ DecodeSize(cache'[cur[p].cacheKey].val) = size]_vars

\* C15 witness: the final response is a 206 of content length 1 whose
\* Content-Range is "bytes 0-0/*".
C15_Witness ==
    \E p \in Procs :
        /\ pc[p] = "finish"
        /\ resp[p].StatusCode = 206
        /\ resp[p].ContentRange = RangeTotalStar
        /\ resp[p].ContentLength = 1

\* C16: when the HEAD probe is answered 200 with content length L >= 0, NewObject
\* succeeds with size L, and with the Last-Modified date as modification time if
\* the header is well-formed, the time of the call otherwise.
C16_HeadMetadata ==
    [][\A p \in Procs :
          /\ pc[p] = "finish" /\ pc'[p] # "finish"
          /\ sent[p].method = "HEAD"
          /\ resp[p].err = "" /\ resp[p].StatusCode = 200 /\ resp[p].ContentLength >= 0
          => LET modTime == IF resp[p].LastModified = LastModDate THEN 100 ELSE now
             IN  /\ cur[p].remote \in entries'[p]
                 /\ node'[p].size = resp[p].ContentLength
                 /\ node'[p].modTime = modTime
                 /\ cache'[cur[p].cacheKey].val
                        = <<resp[p].ContentLength, modTime>>]_vars

\* C16 witness: the HEAD probe has been answered 200 with a Last-Modified header
\* that is no date, at a time other than 0.
C16_Witness ==
    \E p \in Procs :
        /\ pc[p] = "finish"
        /\ sent[p].method = "HEAD"
        /\ resp[p].StatusCode = 200
        /\ resp[p].LastModified = LastModBad
        /\ now > 0

\* a step of List and NewObject taken by p
NewObjectStep(p) ==
    /\ pc[p] \in {"list", "head", "get", "finish"}
    /\ <<pc[p], cur[p], tries[p], resp[p], todo[p]>>'
           # <<pc[p], cur[p], tries[p], resp[p], todo[p]>>

\* C17: a step of NewObject changes the cache only when it returns an Object
\* after its probes ended with status 200 or 206 and a size that is not negative,
\* and then only the record of its cache key; a call that fails and a call served
\* from the cache leave the cache as it was; no call changes the identity table.
C17_CacheOnSuccess ==
    [][\A p \in Procs :
          NewObjectStep(p) =>
              /\ urlMap' = urlMap
              /\ cache' # cache =>
                    /\ ProbeSuccess(p)
                    /\ resp[p].err = ""
                    /\ resp[p].StatusCode \in {200, 206}
                    /\ DOMAIN cache' = DOMAIN cache \cup {cur[p].cacheKey}
                    /\ DecodeSize(cache'[cur[p].cacheKey].val) >= 0
                    /\ \A k \in DOMAIN cache \ {cur[p].cacheKey} : cache'[k] = cache[k]
              /\ cur[p].remote \notin entries'[p] \/ pc[p] # "finish" => cache' = cache]_vars

\* C17 witness: with a record in the cache, the probes of a call have ended with
\* a 200 of unknown length, so that the call fails.
C17_Witness ==
    \E p \in Procs :
        /\ pc[p] = "finish"
        /\ resp[p].StatusCode = 200
        /\ resp[p].ContentLength < 0
        /\ DOMAIN cache # {}

\* the pair NewObject computes from the final response of its own probes
OwnPair(p) == <<resolvedSize(resp[p]), resolvedModTime(resp[p], now)>>

\* C18: with calls of NewObject for one cache key running at once, a record of the
\* cache changes only when one of the calls returns an Object from its probes, and
\* is then the pair of size and modification time of that call; a call returns
\* the Object of its own probes, or the Object of the record it found.
C18_ColdResolution ==
    [][/\ \A k \in DOMAIN cache' :
             k \notin DOMAIN cache \/ cache'[k] # cache[k] =>
                 \E p \in Procs :
                     /\ ProbeSuccess(p)
                     /\ cur[p].cacheKey = k
                     /\ cache'[k].val = OwnPair(p)
       /\ \A p \in Procs :
             ProbeSuccess(p) => <<node'[p].size, node'[p].modTime>> = OwnPair(p)
       /\ \A p \in Procs : \A r \in DOMAIN urlMap :
             LET k == cacheKeyOf(urlMap[r].url, stripQuery, stripDomain)
             IN  LookupHit(p, r) =>
                     /\ k \in DOMAIN cache
                     /\ <<node'[p].size, node'[p].modTime>> = cache[k].val]_vars

\* C18 witness: two calls for one cache key have both probed, with final
\* responses that give different sizes.
C18_Witness ==
    \E p, q \in Procs :
        /\ pc[p] = "finish" /\ pc[q] = "finish"
        /\ cur[p].cacheKey = cur[q].cacheKey
        /\ resolvedSize(resp[p]) = 5
        /\ resolvedSize(resp[q]) = 7

\* the URL and the headers of the calls of Register in RaceSpec
RegisterCalls == {<<r.url, r.header>> : r \in RaceRequests}

\* C19: every entry of the identity table, and every entry a call of NewObject
\* has loaded or built its Object from, has the URL and the headers of one call
\* of Register.
C19_EntriesWhole ==
    /\ \A i \in DOMAIN urlMap : <<urlMap[i].url, urlMap[i].header>> \in RegisterCalls
    /\ \A p \in Procs :
          /\ cur[p] # NoCur => <<cur[p].url, cur[p].header>> \in RegisterCalls
          /\ node[p] # NoObject => <<node[p].url, node[p].header>> \in RegisterCalls

\* C19 witness: a call of NewObject has loaded the entry of one call of Register,
\* and another call of Register has since replaced it.
C19_Witness ==
    \E p \in Procs :
        /\ cur[p] # NoCur
        /\ cur[p].remote \in DOMAIN urlMap
        /\ cur[p].url # urlMap[cur[p].remote].url
        /\ cur[p].header # urlMap[cur[p].remote].header

\* C20: an identifier that is in the identity table stays in it: no step of the
\* handler or of the backend, the write operations and Shutdown among them, takes
\* an entry out.
C20_Monotonic ==
    [][\A i \in DOMAIN urlMap : i \in DOMAIN urlMap']_vars

\* C20 witness: with two identifiers registered, Remove has been called on the
\* Object of one of them.
C20_Witness ==
    /\ Cardinality(DOMAIN urlMap) = 2
    /\ last.op = "Remove"

\* a write operation of the backend has been called in the step
WriteCalled == last' # last /\ last'.op \in FsOps \cup ObjectOps

\* C21: Put, Rmdir, SetModTime, Remove and Update return the read-only error, and
\* no write operation, Mkdir among them, changes the identity table, the cache or
\* the size and modification time of an Object.
C21_ReadOnly ==
    [][WriteCalled =>
           /\ last'.op # "Mkdir" => last'.err = "errorReadOnly"
           /\ urlMap' = urlMap
           /\ cache' = cache
           /\ node' = node]_vars

\* C21 witness: Update has been called on the Object of a file whose record is in
\* the cache.
C21_Witness ==
    /\ last.op = "Update"
    /\ DOMAIN cache # {}
    /\ \E p \in Procs : node[p] # NoObject

\* C22: with neither flag set StripURL returns the string it was given, whether
\* or not the string parses as a URL.
C22_NoFlagsIdentity ==
    ~stripQuery /\ ~stripDomain /\ Len(stripped) >= 1 => stripped[1] = rawURL

\* C22 witness: StripURL has been called with neither flag set on a string that
\* does not parse as a URL, and on a string that parses but is not printed as
\* it was written.
C22_Witness ==
    /\ ~stripQuery /\ ~stripDomain
    /\ Len(stripped) >= 1
    /\ ~Parse(rawURL).ok \/ String(Parse(rawURL)) # rawURL

\* C23 (as the specification states it): StripURL applied to what StripURL
\* returned, with the same flags, returns it unchanged.
C23_Idempotent ==
    Len(stripped) = 2 => stripped[2] = stripped[1]

\* the text of a URL without its query: what stands before the first "?" of the
\* part before "#", and the fragment with its "#"
TextNoQuery(raw) ==
    Cut(Cut(raw, "#")[1], "?")[1]
    \o (IF Cut(raw, "#")[3] THEN <<"#">> \o Cut(raw, "#")[2] ELSE <<>>)

\* the query of a URL as written, with its "?"
TextQuery(raw) ==
    IF Cut(Cut(raw, "#")[1], "?")[3]
    THEN <<"?">> \o Cut(Cut(raw, "#")[1], "?")[2]
    ELSE <<>>

\* the path of a parsed URL, or what stands for it after a scheme without "/"
PathOf(parsedURL) ==
    IF parsedURL.Opaque # <<>> THEN parsedURL.Opaque ELSE parsedURL.Path

\* C24 (as the specification states it): for a string that parses, StripURL with
\* stripQuery alone returns the string without its query and with nothing else
\* changed, and with stripDomain it returns the path, followed by the query
\* unless stripQuery is set as well; a string that does not parse is returned as
\* it is.
C24_Components ==
    Len(stripped) >= 1 /\ (stripQuery \/ stripDomain) =>
        IF ~Parse(rawURL).ok THEN stripped[1] = rawURL
        ELSE IF ~stripDomain THEN stripped[1] = TextNoQuery(rawURL)
        ELSE stripped[1] = PathOf(Parse(rawURL))
                           \o (IF stripQuery THEN <<>> ELSE TextQuery(rawURL))

\* C25: when ServeFile has returned, a handle that file.Open returned has been
\* closed, and closed once, whatever came after file.Open: the body served, the
\* 416, a copy that ended, or a copy that failed (the client gone among the
\* causes); a request without a handle has closed none.
C25_HandleRelease ==
    \A p \in Procs :
        pc[p] = "done" =>
            /\ out[p].handle # "open"
            /\ out[p].closes = IF out[p].opens = 1 /\ out[p].status # 500 THEN 1 ELSE 0
            /\ out[p].closes = 1 <=> out[p].handle = "closed"

\* C25 witness: the copy of a file of unknown size has failed, and the handle is
\* closed.
C25_Witness ==
    \E p \in Procs :
        /\ pc[p] = "done"
        /\ out[p].copied = "some"
        /\ out[p].handle = "closed"

\* C26: one call of Serve calls Stat at most once and file.Open at most once; an
\* error of Stat or of file.Open ends the request at once, and a copy that fails
\* leaves the status as it was sent before the first byte.
C26_NoRetry ==
    \A p \in Procs :
        /\ out[p].stats <= 1
        /\ out[p].opens <= 1
        /\ pc[p] = "done" /\ out[p].stat.called /\ out[p].stat.err # "" =>
              out[p].stats = 1 /\ out[p].opens = 0
        /\ pc[p] = "done" /\ out[p].opens = 1 /\ out[p].handle = "none" =>
              out[p].status = 500 /\ out[p].copied = "none"
        /\ pc[p] = "done" /\ out[p].copied = "some" =>
              out[p].status = 200 /\ out[p].opens = 1

\* C26 witness: the copy has failed after file.Open succeeded.
C26_Witness ==
    \E p \in Procs :
        /\ pc[p] = "done"
        /\ out[p].copied = "some"
        /\ out[p].stats = 1

\* C27: a call of NewObject makes at most as many HEAD attempts as the pacer
\* allows tries, and as many GET attempts again; and a call that has begun to
\* probe returns in the end, whatever the upstream answers.
C27_Terminates ==
    /\ [](\A p \in {1} :
            /\ Count(probes[p].methods, "HEAD") <= Retries
            /\ Count(probes[p].methods, "GET") <= Retries)
    /\ \A p \in {1} : (pc[p] \in {"head", "get", "finish"}) ~> (pc[p] = "list")

\* C27 witness: every attempt but the last one allowed has been answered 503.
C27_Witness ==
    \E p \in Procs :
        /\ pc[p] = "get"
        /\ probes[p].all503
        /\ Len(probes[p].methods) = 2 * Retries - 1

\* C28 (as stated): with Passthrough set and a next handler, a 404 of the handler
\* does not go to the client and the next handler is called once, and an answer
\* with any other status goes to the client and the next handler is not called;
\* without Passthrough the next handler is not called and the 404 goes to the
\* client.
C28_Passthrough ==
    front.status # 0 =>
        IF front.passthrough /\ front.next /\ front.status = 404
        THEN front.nextCalls = 1 /\ front.client = 0
        ELSE front.nextCalls = 0 /\ front.client = front.status

\* the alphabet of StdEncoding, and EncodeToString of encoding/base64 with one of
\* the two alphabets, padded or not
encodeStd == [i \in 1..64 |-> IF i = 63 THEN "+" ELSE IF i = 64 THEN "/" ELSE encodeURL[i]]

RECURSIVE EncodeToString(_, _, _)
EncodeToString(alphabet, padded, src) ==
    IF src = <<>> THEN <<>>
    ELSE
        LET n == IF Len(src) < 3 THEN Len(src) ELSE 3
            b(k) == IF k <= n THEN src[k] ELSE 0
            val == b(1) * 65536 + b(2) * 256 + b(3)
            c(k) == alphabet[((val \div (64 ^ (4 - k))) % 64) + 1]
            all == <<c(1), c(2), c(3), c(4)>>
        IN  IF n = 3 THEN all \o EncodeToString(alphabet, padded, SubSeq(src, 4, Len(src)))
            ELSE SubSeq(all, 1, n + 1) \o
                 (IF padded THEN [k \in 1..(3 - n) |-> "="] ELSE <<>>)

\* C29 (as stated): with an empty 'url' parameter and the path /stream/<segment>, a
\* segment that is the base64 encoding of a URL U gives the target U, with the
\* URL-safe alphabet and with the standard alphabet; and a request that gives no
\* target URL is answered 400 without a call of Serve.  (63 is "?".)
C29_TargetURL ==
    main.called =>
        /\ \A n \in 1..3, alphabet \in {encodeURL, encodeStd}, padded \in BOOLEAN :
              LET U == [k \in 1..n |-> 63]
              IN  /\ main.query = <<>>
                  /\ main.path = <<"/", "s", "t", "r", "e", "a", "m", "/">> \o
                                    EncodeToString(alphabet, padded, U)
                  => main.target = U /\ main.serves = 1
        /\ main.target = <<>> => main.status = 400 /\ main.serves = 0

C31_HeaderIndependent ==
    [][\A p \in Procs : \A r \in DOMAIN urlMap :
          LET k == md5Sum(Canon(urlMap[r].url))
          IN  /\ LookupMiss(p, r) => cur'[p].cacheKey = k
              /\ LookupHit(p, r) =>
                    /\ k \in DOMAIN cache
                    /\ r \in entries'[p]
                    /\ sent'[p] = NoSent
                    /\ probes'[p] = NoProbes
                    /\ cache' = cache
                    /\ shardLevel = 0 /\ r = fileHash[p] =>
                          /\ node'[p].size = DecodeSize(cache[k].val)
                          /\ node'[p].modTime = DecodeModTime(cache[k].val)]_vars

\* C31 witness: a call has got its Object at the cache, from the entry that a call
\* for the same URL with other credentials had resolved.
C31_Witness ==
    \E p \in Procs :
        /\ pc[p] = "list"
        /\ node[p] # NoObject
        /\ LET k == md5Sum(Canon(node[p].url))
           IN  /\ k \in DOMAIN cache
               /\ cache[k].via = node[p].url
               /\ cache[k].by # forwarded(node[p].header)

\* C32: every value in the metadata cache, and every Object that NewObject has
\* returned, from the cache or from a probe, has a size of 0 or more; so no
\* request for a file of the link backend is answered by the branch of ServeFile
\* for an unknown size, the plain copy or its 416.
C32_SizeInvariant ==
    /\ \A k \in DOMAIN cache : DecodeSize(cache[k].val) >= 0
    /\ \A p \in Procs :
          /\ node[p] # NoObject => node[p].size >= 0
          /\ out[p].copied \notin {"all", "some"}
          /\ out[p].opened /\ out[p].status = 416 =>
                node[p].size = 0 /\ Get(req[p].header, "Range") # ""

\* C32 witness: the final response of a resolution gives a size below zero, a
\* Content-Range total or a missing length, and the table and the cache hold
\* nothing of it once the call has returned.
C32_Witness ==
    \E p \in Procs :
        /\ pc[p] = "finish"
        /\ statusOK(resp[p])
        /\ resolvedSize(resp[p]) = -5

\* C33 (as stated): the Object of a cache hit has the size of the Object of the
\* call that resolved, and a modification time that is the same instant, for
\* every size from 0 to 2^63 - 1 and every modification time of a Last-Modified
\* header or of the clock.
C33_RoundTrip ==
    meta # None /\ meta.got # None =>
        /\ meta.got.size = meta.size
        /\ meta.got.modTime = meta.modTime

\* C34: every entry of hashCache is the hex MD5 of the canonical form of its
\* URL; no step replaces an entry by another value or takes one out; and the
\* hash getFileHash has returned to a request is that value, whichever call
\* stored the entry and however the calls interleave.
C34_HashCache ==
    [][/\ \A u \in DOMAIN hashCache' : hashCache'[u] = md5Hex(Canon(u))
       /\ \A u \in DOMAIN hashCache :
             u \in DOMAIN hashCache' /\ hashCache'[u] = hashCache[u]
       /\ \A p \in Procs :
             fileHash'[p] # None =>
                 /\ fileHash'[p] = md5Hex(Canon(req'[p].url))
                 /\ req'[p].url \in DOMAIN hashCache'
                 /\ fileHash'[p] = hashCache'[req'[p].url]]_vars

\* C34 witness: two calls of getFileHash for one URL have both missed at the read
\* lock; one has stored the entry and the other comes to the write lock.
C34_Witness ==
    \E p, q \in Procs :
        /\ p # q
        /\ req[p].url = req[q].url
        /\ pc[p] = "register"
        /\ pc[q] = "hashStore"
        /\ req[q].url \in DOMAIN hashCache

\* C35: a request comes to VFS.Stat only by the step that registers its
\* identity, under the file hash, with its URL and its headers; and without
\* sharding the path given to the engine is the file hash alone, the hash is in
\* the identity table when Stat lists the backend, it is among the names List
\* resolves, and the call of NewObject for it finds its entry.
C35_RegisteredFirst ==
    [][\A p \in Procs :
          /\ pc'[p] = "stat" /\ pc[p] # "stat" =>
                /\ pc[p] = "register"
                /\ Load(urlMap', fileHash[p]) = <<req[p].url, TRUE>>
                /\ urlMap'[fileHash[p]].header = req[p].header
          /\ pc[p] = "stat" /\ pc'[p] # "stat" /\ shardLevel = 0 =>
                /\ ShardedPath(fileHash[p], shardLevel) = <<fileHash[p]>>
                /\ Load(urlMap, fileHash[p])[2]
                /\ fileHash[p] \in todo'[p]
          /\ shardLevel = 0 /\ (LookupHit(p, fileHash[p]) \/ LookupMiss(p, fileHash[p])) =>
                Load(urlMap, fileHash[p])[2]]_vars

\* C35 witness: without sharding, the backend is probing the URL that the request
\* has registered, under the name the request has asked the engine for.
C35_Witness ==
    \E p \in Procs :
        /\ shardLevel = 0
        /\ pc[p] = "head"
        /\ cur[p].remote = fileHash[p]
        /\ cur[p].url = req[p].url

\* C36: a call of NewObject with a name that is not in the identity table returns
\* the object-not-found error, sends no request, and leaves the identity table
\* and the cache as they are.
C36_Unregistered ==
    [][last' # last /\ last'.op = "NewObject" =>
           /\ last'.name \notin DOMAIN urlMap
           /\ last'.err = "ErrorObjectNotFound"
           /\ sent' = sent
           /\ probes' = probes
           /\ urlMap' = urlMap
           /\ cache' = cache]_vars

\* C36 witness: NewObject has been called with the hash of a URL that is not
\* registered, while another URL is registered and its record is in the cache.
C36_Witness ==
    /\ last.op = "NewObject"
    /\ last.name \notin DOMAIN urlMap
    /\ DOMAIN urlMap # {}
    /\ DOMAIN cache # {}

\* C37: List of the root calls NewObject once for every name in the identity
\* table; a call that succeeds, at the cache or after its probes, adds its name
\* to the entries, a call that fails adds nothing, and either way List goes on
\* with the rest and returns no error; List of any other directory returns
\* directory-not-found and resolves nothing.
C37_Listing ==
    [][/\ \A p \in Procs :
             /\ pc[p] = "stat" /\ pc'[p] = "list" =>
                   todo'[p] = DOMAIN urlMap /\ entries'[p] = {}
             /\ pc[p] \in {"list", "head", "get", "finish"} =>
                   /\ Cardinality(todo[p] \ todo'[p]) <= 1
                   /\ entries[p] \cap todo[p] = {}
             /\ \A r \in todo[p] \ todo'[p] :
                   /\ pc'[p] = "list"
                   /\ entries'[p] =
                         IF \/ pc[p] = "list"
                            \/ pc[p] = "finish" /\ statusOK(resp[p]) /\ resolvedSize(resp[p]) >= 0
                         THEN entries[p] \cup {r}
                         ELSE entries[p]
             /\ pc[p] = "list" /\ pc'[p] \notin {"list", "head"} =>
                   /\ todo[p] = {}
                   /\ out'[p].status # 500
       /\ last' # last /\ last'.op = "List" =>
             /\ last'.name # <<>>
             /\ last'.err = "ErrorDirNotFound"
             /\ pc' = pc /\ todo' = todo /\ entries' = entries
             /\ sent' = sent /\ probes' = probes /\ cache' = cache]_vars

\* C37 witness: List of the root has called NewObject for two names and
\* has the one that resolved among its entries and not the one that failed; and
\* List has been called for another directory.
C37_Witness ==
    /\ last.op = "List"
    /\ \E p \in Procs :
          /\ pc[p] = "list"
          /\ todo[p] = {}
          /\ Cardinality(DOMAIN urlMap) = 2
          /\ Cardinality(entries[p]) = 1

\* C38: once a call of NewObject has returned, every response it obtained has
\* had its body closed: none was dropped with its body open, and the final
\* response holds no open body.
C38_BodiesClosed ==
    \A p \in Procs :
        pc[p] \notin {"head", "get", "finish"} =>
            ~bodies[p].leaked /\ ~bodies[p].open

====
